---- MODULE Spec2Model ----
(***************************************************************************)
(* Transcript parser of whatsapp-topics-pipe (src/lib/message-parser.ts).  *)
(* parseWhatsAppMessages is modelled as a state machine that walks the     *)
(* lines of the raw OCR text once; the regular expressions, the date       *)
(* arithmetic and the media classifier are operators on sequences of       *)
(* characters, a character being a one-element string.                     *)
(***************************************************************************)
EXTENDS Integers, Sequences, FiniteSets, TLC

(***************************************************************************)
(* Characters and strings                                                  *)
(***************************************************************************)

\* the value of an absent property (msg.mediaType before it is assigned)
Undefined == "undefined"

Digits == {"0", "1", "2", "3", "4", "5", "6", "7", "8", "9"}

\* \d of the regular expressions
IsDigit(c) == c \in Digits

\* white space and line terminators: what \s matches and what trim() strips
WhiteSpace == {" ", "\t", "\r", "\n"}

IsSpace(c) == c \in WhiteSpace

\* "." of the regular expressions matches everything but a line terminator
LineTerminators == {"\n", "\r"}

Max(S) == CHOOSE x \in S : \A y \in S : y <= x

Min(S) == CHOOSE x \in S : \A y \in S : x <= y

\* String.prototype.trim
Trim(s) ==
  LET keep == {i \in 1..Len(s) : ~IsSpace(s[i])}
  IN  IF keep = {} THEN <<>> ELSE SubSeq(s, Min(keep), Max(keep))

\* String.prototype.toLowerCase, character by character
LowerChar(c) ==
  CASE c = "A" -> "a" [] c = "B" -> "b" [] c = "C" -> "c" [] c = "D" -> "d"
    [] c = "E" -> "e" [] c = "F" -> "f" [] c = "G" -> "g" [] c = "H" -> "h"
    [] c = "I" -> "i" [] c = "J" -> "j" [] c = "K" -> "k" [] c = "L" -> "l"
    [] c = "M" -> "m" [] c = "N" -> "n" [] c = "O" -> "o" [] c = "P" -> "p"
    [] c = "Q" -> "q" [] c = "R" -> "r" [] c = "S" -> "s" [] c = "T" -> "t"
    [] c = "U" -> "u" [] c = "V" -> "v" [] c = "W" -> "w" [] c = "X" -> "x"
    [] c = "Y" -> "y" [] c = "Z" -> "z" [] c = "A_acute" -> "a_acute"
    [] c = "I_acute" -> "i_acute"
    [] OTHER -> c

toLowerCase(s) == [i \in 1..Len(s) |-> LowerChar(s[i])]

\* String.prototype.includes
includes(s, t) ==
  \E i \in 1..(Len(s) - Len(t) + 1) : SubSeq(s, i, i + Len(t) - 1) = t

\* String.prototype.split with a one-character separator
RECURSIVE split(_, _)
split(s, sep) ==
  LET at == {i \in 1..Len(s) : s[i] = sep}
  IN  IF at = {} THEN <<s>>
      ELSE <<SubSeq(s, 1, Min(at) - 1)>> \o split(SubSeq(s, Min(at) + 1, Len(s)), sep)

\* Array.prototype.filter(line => line.trim() !== '')
RECURSIVE filterNonBlank(_)
filterNonBlank(ls) ==
  IF ls = <<>> THEN <<>>
  ELSE IF Trim(Head(ls)) # <<>> THEN <<Head(ls)>> \o filterNonBlank(Tail(ls))
       ELSE filterNonBlank(Tail(ls))

DigitValue(c) ==
  CASE c = "0" -> 0 [] c = "1" -> 1 [] c = "2" -> 2 [] c = "3" -> 3 [] c = "4" -> 4
    [] c = "5" -> 5 [] c = "6" -> 6 [] c = "7" -> 7 [] c = "8" -> 8 [] c = "9" -> 9

\* Number(s) for a string of decimal digits
RECURSIVE Number(_)
Number(s) ==
  IF s = <<>> THEN 0
  ELSE 10 * Number(SubSeq(s, 1, Len(s) - 1)) + DigitValue(s[Len(s)])

(***************************************************************************)
(* Dates: the platform's Date, as a record of local-time fields            *)
(* (month is 0-based as in getMonth; time zone effects are left out).      *)
(***************************************************************************)

\* days since 1970-01-01 of the date whose year, counted from March, is yy and
\* whose month, counted from March as 0, is mp
ShiftedDays(yy, mp, d) ==
  (yy \div 400) * 146097 + (yy % 400) * 365 + ((yy % 400) \div 4)
    - ((yy % 400) \div 100) + ((153 * mp + 2) \div 5) + d - 1 - 719468

\* days since 1970-01-01 of the civil date y-m-d, m in 1..12
DaysFromCivil(y, m, d) ==
  ShiftedDays(IF m <= 2 THEN y - 1 ELSE y, IF m > 2 THEN m - 3 ELSE m + 9, d)

\* <<year, month in 1..12, day>> of day doy of the year y that starts in March,
\* mp being its month counted from March as 0
CivilOfMonth(y, doy, mp) ==
  <<IF mp < 10 THEN y ELSE y + 1,
    IF mp < 10 THEN mp + 3 ELSE mp - 9,
    doy - ((153 * mp + 2) \div 5) + 1>>

CivilOfDay(y, doy) == CivilOfMonth(y, doy, (5 * doy + 2) \div 153)

\* era is the 400-year era, doe the day in it, yoe the year in it
CivilOfYear(era, doe, yoe) ==
  CivilOfDay(yoe + era * 400, doe - (365 * yoe + (yoe \div 4) - (yoe \div 100)))

CivilOfEra(era, doe) ==
  CivilOfYear(era, doe,
    (doe - (doe \div 1460) + (doe \div 36524) - (doe \div 146096)) \div 365)

\* the civil date of a day number, as <<year, month in 1..12, day>>
CivilFromDays(z) == CivilOfEra((z + 719468) \div 146097, (z + 719468) % 146097)

\* the Date of civil date civil and rest milliseconds into that day
DateFields(civil, rest) ==
  [year    |-> civil[1],
   month   |-> civil[2] - 1,
   date    |-> civil[3],
   hours   |-> rest \div 3600000,
   minutes |-> (rest \div 60000) % 60,
   seconds |-> (rest \div 1000) % 60,
   ms      |-> rest % 1000]

\* the Date total milliseconds after the start of day `day` of the month
DateAt(year, monthIndex, day, total) ==
  DateFields(
    CivilFromDays(DaysFromCivil(year + (monthIndex \div 12), (monthIndex % 12) + 1, 1)
                    + (day - 1) + (total \div 86400000)),
    total % 86400000)

\* MakeDay/MakeTime of the platform: out-of-range components carry over
MakeDate(year, monthIndex, day, hours, minutes, seconds, ms) ==
  DateAt(year, monthIndex, day, ((hours * 60 + minutes) * 60 + seconds) * 1000 + ms)

\* new Date(year, monthIndex, day, hours, minutes): years 0..99 mean 1900..1999
NewDate(year, monthIndex, day, hours, minutes) ==
  MakeDate(IF year >= 0 /\ year <= 99 THEN 1900 + year ELSE year,
           monthIndex, day, hours, minutes, 0, 0)

\* Date.prototype.setHours(hours, minutes, 0, 0) on a copy of d
SetHours(d, hours, minutes) ==
  MakeDate(d.year, d.month, d.date, hours, minutes, 0, 0)

\* DateOfParts with the month passed on as it is written
DateOfPartsMonthAsWritten(hm, dmy) ==
  NewDate(Number(dmy[3]), Number(dmy[2]), Number(dmy[1]),
          Number(hm[1]), Number(hm[2]))

\* new Date(year, month - 1, day, hours, minutes) of the split strings
DateOfParts(hm, dmy) ==
  NewDate(Number(dmy[3]), Number(dmy[2]) - 1, Number(dmy[1]),
          Number(hm[1]), Number(hm[2]))

parseTimestamp(time, date) == DateOfParts(split(time, ":"), split(date, "/"))

\* TimeOfParts with a day added when the hour is before that of the reference
TimeOfPartsRollover(hm, referenceDate) ==
  MakeDate(referenceDate.year, referenceDate.month,
           referenceDate.date + (IF Number(hm[1]) < referenceDate.hours THEN 1 ELSE 0),
           Number(hm[1]), Number(hm[2]), 0, 0)

\* newDate.setHours(hours, minutes, 0, 0) of the split string
TimeOfParts(hm, referenceDate) ==
  SetHours(referenceDate, Number(hm[1]), Number(hm[2]))

parseTimeOnly(time, referenceDate) == TimeOfParts(split(time, ":"), referenceDate)

(***************************************************************************)
(* Line classifier: the four regular expressions of messagePatterns.       *)
(* Each Match operator returns what String.prototype.match returns for a   *)
(* regular expression without the g flag: the capture groups of the        *)
(* leftmost match, greedy quantifiers giving back only as much as the rest *)
(* of the pattern needs, or NoMatch (null).                                *)
(***************************************************************************)

NoMatch == [ok |-> FALSE]

\* minutes of one or two digits: \d{1,2}
MinuteDigitsOneOrTwo == {1, 2}

\* the quantifier of the minutes: \d{2} in each of the four patterns
MinuteDigits == {2}

\* the quantifier of the hours: \d{1,2} in each of the four patterns
HourDigits == {1, 2}

AllDigits(l, from, to) == \A i \in from..to : i <= Len(l) /\ IsDigit(l[i])

CharAt(l, i, c) == i >= 1 /\ i <= Len(l) /\ l[i] = c

SpaceAt(l, i) == i >= 1 /\ i <= Len(l) /\ IsSpace(l[i])

\* (\d{1,2}:\d{2}) at position s: the positions at which the token can end
TimeEnds(l, s, md) ==
  {e \in {s + h + m : h \in HourDigits, m \in md} :
      \E h \in HourDigits :
        /\ e - s - h \in md
        /\ AllDigits(l, s, s + h - 1)
        /\ CharAt(l, s + h, ":")
        /\ AllDigits(l, s + h + 1, e)}

\* (\d{1,2}\/\d{1,2}\/\d{4}) at position s: the positions at which it can end
DateEnds(l, s) ==
  {e \in {s + a + b + 5 : a \in {1, 2}, b \in {1, 2}} :
      \E a \in {1, 2}, b \in {1, 2} :
        /\ e = s + a + b + 5
        /\ AllDigits(l, s, s + a - 1)
        /\ CharAt(l, s + a, "/")
        /\ AllDigits(l, s + a + 1, s + a + b)
        /\ CharAt(l, s + a + b + 1, "/")
        /\ AllDigits(l, s + a + b + 2, e)}

\* the last position of the run of white space that starts at from
\* (from - 1 when there is none): how far a greedy \s* or \s+ reaches
SpaceRunEnd(l, from) ==
  LET stop == {i \in from..Len(l) : ~IsSpace(l[i])}
  IN  IF stop = {} THEN Len(l) ELSE Min(stop) - 1

\* the position of the first ":" at or after from, Len(l) + 1 when none
FirstColon(l, from) ==
  LET at == {i \in from..Len(l) : l[i] = ":"}
  IN  IF at = {} THEN Len(l) + 1 ELSE Min(at)

\* (.*) from position start: everything up to the first line terminator
DotStar(l, start, stops) ==
  SubSeq(l, start, IF stops = {} THEN Len(l) ELSE Min(stops) - 1)

UpToTerminator(l, start) ==
  DotStar(l, start, {i \in start..Len(l) : l[i] \in LineTerminators})

\* \s*(.*) from position from: the white space is skipped and the group takes
\* the rest
RestAfterSpaces(l, from) == UpToTerminator(l, SpaceRunEnd(l, from) + 1)

\* where the white space before a sender group ends: it is greedy but leaves
\* the group the character before the colon; 0 when that cannot be done
SpacesEnd(from, minSpaces, runEnd, colon) ==
  IF runEnd < colon - 1 THEN (IF runEnd >= from + minSpaces - 1 THEN runEnd ELSE 0)
  ELSE (IF colon - 2 >= from + minSpaces - 1 THEN colon - 2 ELSE 0)

SenderSpan(l, spacesEnd, colon) ==
  IF colon > Len(l) \/ spacesEnd = 0 THEN <<>> ELSE <<spacesEnd + 1, colon>>

\* <spaces>([^:]+): from position from, where the white space quantifier needs
\* at least minSpaces characters; the sender runs to the first ":".
\* Returns <<first position of the sender, position of the colon>> or <<>>.
SenderColon(l, from, minSpaces) ==
  SenderSpan(l,
    SpacesEnd(from, minSpaces, SpaceRunEnd(l, from), FirstColon(l, from)),
    FirstColon(l, from))

\* the only element of a set of at most one position, 0 for the empty set
Only(S) == IF S = {} THEN 0 ELSE CHOOSE x \in S : TRUE

\* the time token at position s that is followed by a comma: where it ends
TimeEndComma(l, s, md) == Only({e \in TimeEnds(l, s, md) : CharAt(l, e + 1, ",")})

\* the time token at position s that is followed by white space
TimeEndSpace(l, s, md) == Only({e \in TimeEnds(l, s, md) : SpaceAt(l, e + 1)})

\* the date token at position s that is followed by "]"
DateEndBracket(l, s) == Only({e \in DateEnds(l, s) : CharAt(l, e + 1, "]")})

\* the captures of pattern 0 for a match that starts at s: the time ends at t,
\* the date is l[ds..d], sc is the span of the sender
FullCaptures(l, s, t, ds, d, sc) ==
  IF sc = <<>> THEN NoMatch
  ELSE [ok      |-> TRUE,
        time    |-> SubSeq(l, s + 1, t),
        date    |-> SubSeq(l, ds, d),
        sender  |-> SubSeq(l, sc[1], sc[2] - 1),
        content |-> RestAfterSpaces(l, sc[2] + 1)]

FullDate(l, s, t, ds, d) ==
  IF d = 0 THEN NoMatch
  ELSE FullCaptures(l, s, t, ds, d, SenderColon(l, d + 2, 0))

FullTime(l, s, t, ds) == FullDate(l, s, t, ds, DateEndBracket(l, ds))

FullBracket(l, s, t) ==
  IF t = 0 THEN NoMatch ELSE FullTime(l, s, t, SpaceRunEnd(l, t + 2) + 1)

\* /\[(\d{1,2}:\d{2}),\s*(\d{1,2}\/\d{1,2}\/\d{4})\]\s*([^:]+):\s*(.*)/ tried
\* at position s
Full(l, s, md) ==
  IF ~CharAt(l, s, "[") THEN NoMatch
  ELSE FullBracket(l, s, TimeEndComma(l, s + 1, md))

\* the captures of pattern 1 for a match that starts at s
TimeSenderCaptures(l, s, t, sc) ==
  IF sc = <<>> THEN NoMatch
  ELSE [ok      |-> TRUE,
        time    |-> SubSeq(l, s, t),
        sender  |-> SubSeq(l, sc[1], sc[2] - 1),
        content |-> RestAfterSpaces(l, sc[2] + 1)]

TimeSenderTime(l, s, t) ==
  IF t = 0 THEN NoMatch
  ELSE TimeSenderCaptures(l, s, t, SenderColon(l, t + 1, 1))

\* /(\d{1,2}:\d{2})\s+([^:]+):\s*(.*)/ tried at position s
TimeSender(l, s, md) ==
  IF s > Len(l) \/ ~IsDigit(l[s]) THEN NoMatch
  ELSE TimeSenderTime(l, s, TimeEndSpace(l, s, md))

FullAt(l, starts, md) ==
  IF starts = {} THEN NoMatch ELSE Full(l, Min(starts), md)

\* pattern 0, the full timestamp pattern: not anchored, so the match is the
\* one at the leftmost position at which the pattern matches
MatchFull(l, md) == FullAt(l, {s \in 1..Len(l) : Full(l, s, md).ok}, md)

TimeSenderAt(l, starts, md) ==
  IF starts = {} THEN NoMatch ELSE TimeSender(l, Min(starts), md)

\* pattern 1, the time and sender pattern: not anchored either
MatchTimeSender(l, md) ==
  TimeSenderAt(l, {s \in 1..Len(l) : TimeSender(l, s, md).ok}, md)

\* the captures of pattern 2: the sender is l[1..p], the time is l[ts..t]
SenderTimeCaptures(l, p, ts, t) ==
  [ok      |-> TRUE,
   sender  |-> SubSeq(l, 1, p),
   time    |-> SubSeq(l, ts, t),
   content |-> RestAfterSpaces(l, t + 1)]

SenderTimeFrom(l, p, ts, md) ==
  SenderTimeCaptures(l, p, ts, TimeEndSpace(l, ts, md))

SenderTimeAt(l, ps, md) ==
  IF ps = {} THEN NoMatch
  ELSE SenderTimeFrom(l, Max(ps), SpaceRunEnd(l, Max(ps) + 1) + 1, md)

\* a sender l[1..p] fits: no ":" in it, white space after it, then the time
\* token followed by white space
SenderFits(l, p, md) ==
  /\ FirstColon(l, 1) > p
  /\ SpaceAt(l, p + 1)
  /\ TimeEndSpace(l, SpaceRunEnd(l, p + 1) + 1, md) # 0

\* pattern 2: /^([^:]+)\s+(\d{1,2}:\d{2})\s+(.*)/
\* the sender is the longest prefix without ":" after which the rest matches
MatchSenderTime(l, md) ==
  SenderTimeAt(l, {p \in 1..Len(l) : SenderFits(l, p, md)}, md)

TimeOnlyCaptures(l, t) ==
  IF t = 0 THEN NoMatch
  ELSE [ok      |-> TRUE,
        time    |-> SubSeq(l, 1, t),
        content |-> RestAfterSpaces(l, t + 1)]

\* pattern 3: /^(\d{1,2}:\d{2})\s+(.*)/
MatchTimeOnly(l, md) == TimeOnlyCaptures(l, TimeEndSpace(l, 1, md))

\* line.match(messagePatterns[k]), k counted from 0 as in the source
MatchPattern(k, l, md) ==
  CASE k = 0 -> MatchFull(l, md)
    [] k = 1 -> MatchTimeSender(l, md)
    [] k = 2 -> MatchSenderTime(l, md)
    [] k = 3 -> MatchTimeOnly(l, md)

\* the time-only pattern tried before the two patterns with a sender
messagePatternsTimeOnlyFirst == <<0, 3, 1, 2>>

\* the order in which the loop over messagePatterns tries the patterns
messagePatterns == <<0, 1, 2, 3>>

\* the pattern at place i of messagePatterns, paired with its match
MatchedBy(l, i) ==
  <<messagePatterns[i], MatchPattern(messagePatterns[i], l, MinuteDigits)>>

FirstOf(l, hits) == IF hits = {} THEN <<>> ELSE MatchedBy(l, Min(hits))

\* the inner loop: the first pattern of messagePatterns that matches the
\* line, as <<pattern, match>>, or <<>> when the loop ends with matched = false
FirstMatch(l) ==
  FirstOf(l, {i \in 1..Len(messagePatterns) :
                 MatchPattern(messagePatterns[i], l, MinuteDigits).ok})

(***************************************************************************)
(* Media classifier                                                        *)
(***************************************************************************)

mediaIndicators ==
  <<<<"P", "h", "o", "t", "o">>,
   <<"F", "o", "t", "o">>,
   <<"I", "m", "a", "g", "e">>,
   <<"I", "m", "a", "g", "e", "m">>,
   <<"V", "i", "d", "e", "o">>,
   <<"V", "i_acute", "d", "e", "o">>,
   <<"A", "u", "d", "i", "o">>,
   <<"A_acute", "u", "d", "i", "o">>,
   <<"D", "o", "c", "u", "m", "e", "n", "t">>,
   <<"D", "o", "c", "u", "m", "e", "n", "t", "o">>,
   <<"G", "I", "F">>,
   <<"S", "t", "i", "c", "k", "e", "r">>,
   <<"F", "i", "g", "u", "r", "i", "n", "h", "a">>,
   <<"<", "M", "e", "d", "i", "a", " ", "o", "m", "i", "t", "t", "e", "d", ">">>,
   <<"<", "M", "i_acute", "d", "i", "a", " ", "o", "c", "u", "l", "t", "a", ">">>,
   <<".", "j", "p", "g">>,
   <<".", "p", "n", "g">>,
   <<".", "m", "p", "4">>,
   <<".", "p", "d", "f">>,
   <<".", "d", "o", "c", "x">>>>

checkIfMedia(content) ==
  LET lowerContent == toLowerCase(content)
  IN  \E i \in 1..Len(mediaIndicators) :
        includes(lowerContent, toLowerCase(mediaIndicators[i]))

\* detectMediaType with the video test moved before the image test
detectMediaTypeVideoFirst(content) ==
  LET lowerContent == toLowerCase(content)
  IN  IF \/ includes(lowerContent, <<"v", "i", "d", "e", "o">>)
         \/ includes(lowerContent, <<"v", "i_acute", "d", "e", "o">>)
         \/ includes(lowerContent, <<".", "m", "p", "4">>)
      THEN "video"
      ELSE IF \/ includes(lowerContent, <<"p", "h", "o", "t", "o">>)
           \/ includes(lowerContent, <<"f", "o", "t", "o">>)
           \/ includes(lowerContent, <<"i", "m", "a", "g", "e">>)
           \/ includes(lowerContent, <<".", "j", "p", "g">>)
           \/ includes(lowerContent, <<".", "p", "n", "g">>)
      THEN "image"
      ELSE IF \/ includes(lowerContent, <<"a", "u", "d", "i", "o">>)
           \/ includes(lowerContent, <<"a_acute", "u", "d", "i", "o">>)
           \/ includes(lowerContent, <<".", "m", "p", "3">>)
           \/ includes(lowerContent, <<".", "o", "g", "g">>)
      THEN "audio"
      ELSE IF \/ includes(lowerContent, <<"d", "o", "c", "u", "m", "e", "n", "t">>)
           \/ includes(lowerContent, <<".", "p", "d", "f">>)
           \/ includes(lowerContent, <<".", "d", "o", "c", "x">>)
      THEN "document"
      ELSE IF includes(lowerContent, <<"g", "i", "f">>)
      THEN "gif"
      ELSE IF \/ includes(lowerContent, <<"s", "t", "i", "c", "k", "e", "r">>)
           \/ includes(lowerContent, <<"f", "i", "g", "u", "r", "i", "n", "h", "a">>)
      THEN "sticker"
      ELSE "unknown"

detectMediaType(content) ==
  LET lowerContent == toLowerCase(content)
  IN  IF \/ includes(lowerContent, <<"p", "h", "o", "t", "o">>)
           \/ includes(lowerContent, <<"f", "o", "t", "o">>)
           \/ includes(lowerContent, <<"i", "m", "a", "g", "e">>)
           \/ includes(lowerContent, <<"i", "m", "a", "g", "e", "m">>)
           \/ includes(lowerContent, <<".", "j", "p", "g">>)
           \/ includes(lowerContent, <<".", "p", "n", "g">>)
      THEN "image"
      ELSE IF \/ includes(lowerContent, <<"v", "i", "d", "e", "o">>)
           \/ includes(lowerContent, <<"v", "i_acute", "d", "e", "o">>)
           \/ includes(lowerContent, <<".", "m", "p", "4">>)
      THEN "video"
      ELSE IF \/ includes(lowerContent, <<"a", "u", "d", "i", "o">>)
           \/ includes(lowerContent, <<"a_acute", "u", "d", "i", "o">>)
           \/ includes(lowerContent, <<".", "m", "p", "3">>)
           \/ includes(lowerContent, <<".", "o", "g", "g">>)
      THEN "audio"
      ELSE IF \/ includes(lowerContent, <<"d", "o", "c", "u", "m", "e", "n", "t">>)
           \/ includes(lowerContent, <<"d", "o", "c", "u", "m", "e", "n", "t", "o">>)
           \/ includes(lowerContent, <<".", "p", "d", "f">>)
           \/ includes(lowerContent, <<".", "d", "o", "c", "x">>)
      THEN "document"
      ELSE IF includes(lowerContent, <<"g", "i", "f">>)
      THEN "gif"
      ELSE IF \/ includes(lowerContent, <<"s", "t", "i", "c", "k", "e", "r">>)
           \/ includes(lowerContent, <<"f", "i", "g", "u", "r", "i", "n", "h", "a">>)
      THEN "sticker"
      ELSE "unknown"

(***************************************************************************)
(* parseWhatsAppMessages as a state machine                                *)
(***************************************************************************)

VARIABLES
  rawText,           \* the argument: the OCR text, lines joined by "\n"
  now,               \* what new Date() returns at parse entry
  pc,                \* "start", "loop" (the for loop), "media" (the forEach), "done"
  lines,             \* rawText split into lines, blank lines filtered out
  idx,               \* position of the for loop in lines
  currentMessage,    \* <<>> for null, else <<the message in progress>>
  currentTimestamp,  \* the rolling reference date
  messages,          \* the array that is returned
  suspended,         \* the frames of the other parse calls in progress or returned
  calls,             \* number of parse calls entered so far
  captures,          \* the argument of extractMessagesFromCaptures
  extracted,         \* the array captures.map builds, <<>> before the call
  helper,            \* <<>>, else <<the last call of a helper or of a query>>
  request,           \* <<>>, else <<the API request that is being handled>>
  stored,            \* <<>>, else <<the TopicsStorage kept under STORAGE_KEY>>
  settings,          \* <<>>, else <<the settings kept under "whatsappTopics">>
  today,             \* the clock of the storage layer, in days
  op                 \* the storage operations in progress, each after its load

\* the locals of one call of parseWhatsAppMessages, with its argument
frame == <<rawText, now, pc, lines, idx, currentMessage, currentTimestamp, messages>>

\* the callers of the parser
callers == <<suspended, calls, captures, extracted, helper, request>>

\* the storage layer
storage == <<stored, settings, today, op>>

vars == <<frame, callers, storage>>

\* number of lines of the raw texts that are explored
MaxLines == 3

\* The lines the raw texts are made of:
\*   [10:30, 1/1/2024] Alice: Hello                full timestamp
\*   how are you                                   no pattern
\*   9:15 Bob: lunch                               time + sender, also of the time-only shape
\*   14:00 see you later                           time only
\*   Bob 9:15 hi                                   sender + time
\*   9:15 Bob:                                     time + sender with an empty body
\*   9:5 Bob: hi                                   single-digit minutes
\*   9:15  : hi                                    time + sender with a blank sender
\*    photo.jpg\r                                  no pattern, a media marker, white space around it
\*   [08:00, 2/2/2024] Carol: <Media omitted>      full timestamp, media placeholder
\*                                                 blank
\*   Bob 9:15 x: y                                 of the sender + time and of the time + sender shape
\*   23:50 Video call                              time only, media keyword
InputLines ==
  {<<"[", "1", "0", ":", "3", "0", ",", " ", "1", "/", "1", "/", "2", "0", "2", "4", "]", " ", "A", "l", "i", "c", "e", ":", " ", "H", "e", "l", "l", "o">>,
   <<"h", "o", "w", " ", "a", "r", "e", " ", "y", "o", "u">>,
   <<"9", ":", "1", "5", " ", "B", "o", "b", ":", " ", "l", "u", "n", "c", "h">>,
   <<"1", "4", ":", "0", "0", " ", "s", "e", "e", " ", "y", "o", "u", " ", "l", "a", "t", "e", "r">>,
   <<"B", "o", "b", " ", "9", ":", "1", "5", " ", "h", "i">>,
   <<"9", ":", "1", "5", " ", "B", "o", "b", ":">>,
   <<"9", ":", "5", " ", "B", "o", "b", ":", " ", "h", "i">>,
   <<"9", ":", "1", "5", " ", " ", ":", " ", "h", "i">>,
   <<" ", "p", "h", "o", "t", "o", ".", "j", "p", "g", "\r">>,
   <<"[", "0", "8", ":", "0", "0", ",", " ", "2", "/", "2", "/", "2", "0", "2", "4", "]", " ", "C", "a", "r", "o", "l", ":", " ", "<", "M", "e", "d", "i", "a", " ", "o", "m", "i", "t", "t", "e", "d", ">">>,
   <<" ", " ">>,
   <<"B", "o", "b", " ", "9", ":", "1", "5", " ", "x", ":", " ", "y">>,
   <<"2", "3", ":", "5", "0", " ", "V", "i", "d", "e", "o", " ", "c", "a", "l", "l">>}

\* The lines of the raw texts that are runs of lines with only a time:
\*   09:00 msg1                                    time only
\*   23:50 msg2                                    time only, later in the day
\*   24:00 msg3                                    time only, hour 24
\*   9:60 Bob: hi                                  time + sender, minute 60
\*   Bob 99:99 hi                                  sender + time, hour 99 and minute 99
\*   0:00 Ann: x                                   time + sender, midnight
\*   [23:59, 31/12/2023] Alice: Hello              full timestamp, the last minute of a year
\*   how are you                                   no pattern
TimeLines ==
  {<<"0", "9", ":", "0", "0", " ", "m", "s", "g", "1">>,
   <<"2", "3", ":", "5", "0", " ", "m", "s", "g", "2">>,
   <<"2", "4", ":", "0", "0", " ", "m", "s", "g", "3">>,
   <<"9", ":", "6", "0", " ", "B", "o", "b", ":", " ", "h", "i">>,
   <<"B", "o", "b", " ", "9", "9", ":", "9", "9", " ", "h", "i">>,
   <<"0", ":", "0", "0", " ", "A", "n", "n", ":", " ", "x">>,
   <<"[", "2", "3", ":", "5", "9", ",", " ", "3", "1", "/", "1", "2", "/", "2", "0", "2", "3", "]", " ", "A", "l", "i", "c", "e", ":", " ", "H", "e", "l", "l", "o">>,
   <<"h", "o", "w", " ", "a", "r", "e", " ", "y", "o", "u">>}

\* The lines of the raw texts whose messages are grouped and filtered:
\*   9:15 Bob: lunch                               sender Bob
\*   Bob 9:15 hi                                   sender Bob, of another pattern
\*   9:15 bob: x                                   sender bob, in lower case
\*   [10:30, 1/1/2024] Alice: Hello                sender Alice
\*   14:00 see you later                           no sender: Unknown
\*   9:15  : hi                                    a blank sender
\*   how are you                                   no pattern
SenderLines ==
  {<<"9", ":", "1", "5", " ", "B", "o", "b", ":", " ", "l", "u", "n", "c", "h">>,
   <<"B", "o", "b", " ", "9", ":", "1", "5", " ", "h", "i">>,
   <<"9", ":", "1", "5", " ", "b", "o", "b", ":", " ", "x">>,
   <<"[", "1", "0", ":", "3", "0", ",", " ", "1", "/", "1", "/", "2", "0", "2", "4", "]", " ", "A", "l", "i", "c", "e", ":", " ", "H", "e", "l", "l", "o">>,
   <<"1", "4", ":", "0", "0", " ", "s", "e", "e", " ", "y", "o", "u", " ", "l", "a", "t", "e", "r">>,
   <<"9", ":", "1", "5", " ", " ", ":", " ", "h", "i">>,
   <<"h", "o", "w", " ", "a", "r", "e", " ", "y", "o", "u">>}

\* FirstMatch of the explored lines, computed once; Match(l) = FirstMatch(l)
MatchTable ==
  [l \in InputLines \cup TimeLines \cup SenderLines |-> FirstMatch(l)]

Match(l) == IF l \in DOMAIN MatchTable THEN MatchTable[l] ELSE FirstMatch(l)

\* the readings of the clock that are explored
Clock ==
  {[year |-> 2024, month |-> 0, date |-> 1,
    hours |-> 12, minutes |-> 34, seconds |-> 56, ms |-> 789]}

RECURSIVE join(_, _)
join(ls, sep) ==
  IF ls = <<>> THEN <<>>
  ELSE IF Len(ls) = 1 THEN ls[1]
  ELSE ls[1] \o <<sep>> \o join(Tail(ls), sep)

RawTexts(Inputs) ==
  {join(ls, "\n") : ls \in UNION {[1..n -> Inputs] : n \in 0..MaxLines}}

\* a null or undefined argument: no string, told apart from every text
Null == <<"null">>

\* !rawText: null, undefined and the empty string are falsy
Falsy(text) == text = Null \/ text = <<>>

\* no other parse call, no call of a helper, no API request
NoCallers ==
  /\ suspended = <<>>
  /\ calls = 1
  /\ captures = <<>>
  /\ extracted = <<>>
  /\ helper = <<>>
  /\ request = <<>>

\* DEFAULT_SETTINGS, the fields of it that the handlers and the storage layer
\* are written or documented to use
DEFAULT_SETTINGS ==
  [enabled |-> TRUE, maxDaysToKeep |-> 30,
   excludeSenders |-> <<>>, includeOnlySenders |-> <<>>]

\* nothing is kept under STORAGE_KEY or under "whatsappTopics" yet, and no
\* storage operation is in progress
NoStorage ==
  /\ stored = <<>>
  /\ settings = <<>>
  /\ today = 0
  /\ op = <<>>

\* the entry of a call of parseWhatsAppMessages on one of Texts
Entry(Texts) ==
  /\ rawText \in Texts
  /\ now \in Clock
  /\ pc = "start"
  /\ lines = <<>>
  /\ idx = 1
  /\ currentMessage = <<>>
  /\ currentTimestamp = CHOOSE d \in Clock : TRUE
  /\ messages = <<>>

InitOn(Texts) == Entry(Texts) /\ NoCallers /\ NoStorage

InitWith(Inputs) == InitOn(RawTexts(Inputs) \cup {Null})

Init == InitWith(InputLines)

\* if (!rawText || rawText.trim().length === 0) return messages
ReturnEmpty ==
  /\ pc = "start"
  /\ (Falsy(rawText) \/ Len(Trim(rawText)) = 0)
  /\ pc' = "done"
  /\ UNCHANGED <<rawText, now, lines, idx, currentMessage, currentTimestamp, messages>>
  /\ UNCHANGED <<callers, storage>>

\* StartLoop with the rolling reference declared outside the function: it is
\* not set to the clock at entry, it is what the call before left
StartLoopSharedReference ==
  /\ pc = "start"
  /\ ~Falsy(rawText)
  /\ Len(Trim(rawText)) # 0
  /\ lines' = filterNonBlank(split(rawText, "\n"))
  /\ currentMessage' = <<>>
  /\ idx' = 1
  /\ pc' = "loop"
  /\ UNCHANGED <<rawText, now, messages, currentTimestamp>>
  /\ UNCHANGED <<callers, storage>>

\* split, filter, and the two let declarations before the loop
StartLoop ==
  /\ pc = "start"
  /\ ~Falsy(rawText)
  /\ Len(Trim(rawText)) # 0
  /\ lines' = filterNonBlank(split(rawText, "\n"))
  /\ currentMessage' = <<>>
  /\ currentTimestamp' = now
  /\ idx' = 1
  /\ pc' = "loop"
  /\ UNCHANGED <<rawText, now, messages>>
  /\ UNCHANGED <<callers, storage>>

\* Flush without the test of the content
FlushAnyMessage(msgs, cur) ==
  IF cur # <<>> THEN Append(msgs, cur[1]) ELSE msgs

\* Flush with unshift in place of push
FlushFront(msgs, cur) ==
  IF cur # <<>> /\ cur[1].content # <<>> THEN <<cur[1]>> \o msgs ELSE msgs

\* if (currentMessage && currentMessage.content) messages.push(currentMessage)
Flush(msgs, cur) ==
  IF cur # <<>> /\ cur[1].content # <<>> THEN Append(msgs, cur[1]) ELSE msgs

\* Resolve with parseTimeOnly against the clock at entry in place of the
\* rolling reference
ResolveFromEntry(k, m, reference) ==
  IF k = 0 THEN parseTimestamp(m.time, m.date)
  ELSE parseTimeOnly(m.time, now)

\* the timestamp a match resolves to: parseTimestamp for pattern 0,
\* parseTimeOnly against the rolling reference for the others
Resolve(k, m, reference) ==
  IF k = 0 THEN parseTimestamp(m.time, m.date)
  ELSE parseTimeOnly(m.time, reference)

\* the sender the branch of pattern k assigns
SenderOf(k, m) ==
  IF k = 3 THEN <<"U", "n", "k", "n", "o", "w", "n">> ELSE Trim(m.sender)

\* the object literal assigned to currentMessage; line is not a property of
\* the object: it records the index in lines of the line that was matched
NewMessage(k, m, timestamp, i) ==
  [timestamp |-> timestamp,
   sender    |-> SenderOf(k, m),
   content   |-> Trim(m.content),
   isMedia   |-> checkIfMedia(m.content),
   mediaType |-> Undefined,
   line      |-> i]

\* the continuation appended without line.trim()
ContinuedUntrimmed(content, line) == content \o <<" ">> \o line

\* currentMessage.content = (currentMessage.content || '') + ' ' + line.trim()
Continued(content, line) == content \o <<" ">> \o Trim(line)

\* a loop that does not advance
NextLineStuck(i) == i

\* the next iteration of for (const line of lines)
NextLine(i) == i + 1

\* loop body, a pattern matched
MatchedLine ==
  /\ pc = "loop"
  /\ idx <= Len(lines)
  /\ Match(lines[idx]) # <<>>
  /\ LET fm == Match(lines[idx])
         ts == Resolve(fm[1], fm[2], currentTimestamp)
     IN  /\ messages' = Flush(messages, currentMessage)
         /\ currentTimestamp' = ts
         /\ currentMessage' = <<NewMessage(fm[1], fm[2], ts, idx)>>
  /\ idx' = NextLine(idx)
  /\ UNCHANGED <<rawText, now, pc, lines>>
  /\ UNCHANGED <<callers, storage>>

\* loop body, no pattern matched and a message is in progress
ContinuationLine ==
  /\ pc = "loop"
  /\ idx <= Len(lines)
  /\ Match(lines[idx]) = <<>>
  /\ currentMessage # <<>>
  /\ currentMessage' =
       <<[currentMessage[1] EXCEPT !.content = Continued(@, lines[idx])]>>
  /\ idx' = NextLine(idx)
  /\ UNCHANGED <<rawText, now, pc, lines, currentTimestamp, messages>>
  /\ UNCHANGED <<callers, storage>>

\* DroppedLine with the test of currentMessage left out of the continuation:
\* an object is made for the line and the line is appended to its content
DroppedLineAppended ==
  /\ pc = "loop"
  /\ idx <= Len(lines)
  /\ Match(lines[idx]) = <<>>
  /\ currentMessage = <<>>
  /\ currentMessage' =
       <<[timestamp |-> Undefined,
          sender    |-> Undefined,
          content   |-> Continued(<<>>, lines[idx]),
          isMedia   |-> FALSE,
          mediaType |-> Undefined,
          line      |-> idx]>>
  /\ idx' = NextLine(idx)
  /\ UNCHANGED <<rawText, now, pc, lines, currentTimestamp, messages>>
  /\ UNCHANGED <<callers, storage>>

\* DroppedLine with the line kept as the start of a message without a time
DroppedLineKept ==
  /\ pc = "loop"
  /\ idx <= Len(lines)
  /\ Match(lines[idx]) = <<>>
  /\ currentMessage = <<>>
  /\ currentMessage' =
       <<[timestamp |-> currentTimestamp,
          sender    |-> <<"U", "n", "k", "n", "o", "w", "n">>,
          content   |-> Trim(lines[idx]),
          isMedia   |-> checkIfMedia(lines[idx]),
          mediaType |-> Undefined,
          line      |-> idx]>>
  /\ idx' = NextLine(idx)
  /\ UNCHANGED <<rawText, now, pc, lines, currentTimestamp, messages>>
  /\ UNCHANGED <<callers, storage>>

\* loop body, no pattern matched and no message is in progress
DroppedLine ==
  /\ pc = "loop"
  /\ idx <= Len(lines)
  /\ Match(lines[idx]) = <<>>
  /\ currentMessage = <<>>
  /\ idx' = NextLine(idx)
  /\ UNCHANGED <<rawText, now, pc, lines, currentMessage, currentTimestamp, messages>>
  /\ UNCHANGED <<callers, storage>>

\* FlushLast without the push: the last message is forgotten
FlushLastForgotten ==
  /\ pc = "loop"
  /\ idx > Len(lines)
  /\ pc' = "media"
  /\ UNCHANGED <<rawText, now, lines, idx, currentMessage, currentTimestamp, messages>>
  /\ UNCHANGED <<callers, storage>>

\* after the loop: "Don't forget the last message"
FlushLast ==
  /\ pc = "loop"
  /\ idx > Len(lines)
  /\ messages' = Flush(messages, currentMessage)
  /\ pc' = "media"
  /\ UNCHANGED <<rawText, now, lines, idx, currentMessage, currentTimestamp>>
  /\ UNCHANGED <<callers, storage>>

\* the forEach body without its if
AddMediaTypeAlways(msg) ==
  [msg EXCEPT !.mediaType = detectMediaType(msg.content)]

\* if (msg.isMedia) msg.mediaType = detectMediaType(msg.content)
AddMediaType(msg) ==
  IF msg.isMedia THEN [msg EXCEPT !.mediaType = detectMediaType(msg.content)]
  ELSE msg

\* messages.forEach(...) and return messages
MediaPass ==
  /\ pc = "media"
  /\ messages' = [i \in 1..Len(messages) |-> AddMediaType(messages[i])]
  /\ pc' = "done"
  /\ UNCHANGED <<rawText, now, lines, idx, currentMessage, currentTimestamp>>
  /\ UNCHANGED <<callers, storage>>

Next ==
  \/ ReturnEmpty
  \/ StartLoop
  \/ MatchedLine
  \/ ContinuationLine
  \/ DroppedLine
  \/ FlushLast
  \/ MediaPass

Spec == Init /\ [][Next]_vars

(***************************************************************************)
(* Parse calls on texts made of media markers                              *)
(***************************************************************************)

\* number of words of the bodies that are explored
MaxWords == 2

\* The words the bodies are made of: markers of each keyword family, in
\* several spellings, the two audio extensions that are no media indicator,
\* an omission marker and a word that is no marker
\*   Photo  imagem  .png  video  VÍDEO  .mp4  audio  Áudio  .mp3  .ogg  Documento  .pdf  GIF  Sticker  figurinha  <Media omitted>  hello
MediaWords ==
  {<<"P", "h", "o", "t", "o">>,
   <<"i", "m", "a", "g", "e", "m">>,
   <<".", "p", "n", "g">>,
   <<"v", "i", "d", "e", "o">>,
   <<"V", "I_acute", "D", "E", "O">>,
   <<".", "m", "p", "4">>,
   <<"a", "u", "d", "i", "o">>,
   <<"A_acute", "u", "d", "i", "o">>,
   <<".", "m", "p", "3">>,
   <<".", "o", "g", "g">>,
   <<"D", "o", "c", "u", "m", "e", "n", "t", "o">>,
   <<".", "p", "d", "f">>,
   <<"G", "I", "F">>,
   <<"S", "t", "i", "c", "k", "e", "r">>,
   <<"f", "i", "g", "u", "r", "i", "n", "h", "a">>,
   <<"<", "M", "e", "d", "i", "a", " ", "o", "m", "i", "t", "t", "e", "d", ">">>,
   <<"h", "e", "l", "l", "o">>}

\* a line of the time + sender shape without its body
MediaPrefix == <<"9", ":", "1", "5", " ", "B", "o", "b", ":", " ">>

\* the bodies: up to MaxWords words, separated by one space
MediaBodies ==
  {join(ws, " ") : ws \in UNION {[1..n -> MediaWords] : n \in 1..MaxWords}}

\* the texts: nothing, a line with each body, a body whose last word stands on
\* a line of its own (continuation text), and a word alone (no pattern)
MediaTexts ==
  {<<>>}
    \cup {MediaPrefix \o b : b \in MediaBodies}
    \cup {MediaPrefix \o b \o <<"\n">> \o w : b \in MediaWords, w \in MediaWords}
    \cup MediaWords

MediaInit == InitOn(MediaTexts)

MediaSpec == MediaInit /\ [][Next]_vars

(***************************************************************************)
(* Parse calls on full timestamps of which the components are drawn        *)
(***************************************************************************)

\* the hours, minutes, days, months and years that are written on the lines:
\* the ends of each range, values beyond it up to the largest the digits of
\* the pattern can write, 29 February, and years below 100
StampHours == {<<"0">>, <<"2", "3">>, <<"2", "4">>, <<"9", "9">>}

StampMinutes == {<<"0", "0">>, <<"5", "9">>, <<"6", "0">>, <<"9", "9">>}

StampDays == {<<"1">>, <<"2", "9">>, <<"3", "1">>, <<"3", "2">>, <<"9", "9">>}

StampMonths == {<<"1">>, <<"2">>, <<"1", "2">>, <<"1", "3">>, <<"9", "9">>}

StampYears == {<<"0", "0", "0", "0">>, <<"0", "0", "9", "9">>, <<"0", "1", "0", "0">>, <<"2", "0", "2", "3">>, <<"2", "0", "2", "4">>}

\* the line [h:mi, d/mo/y] Alice: Hello
FullLine(h, mi, d, mo, y) ==
  <<"[">> \o h \o <<":">> \o mi \o <<",", " ">> \o d \o <<"/">> \o mo \o <<"/">> \o y
    \o <<"]", " ", "A", "l", "i", "c", "e", ":", " ", "H", "e", "l", "l", "o">>

StampLines ==
  {FullLine(h, mi, d, mo, y) :
     h \in StampHours, mi \in StampMinutes, d \in StampDays,
     mo \in StampMonths, y \in StampYears}

\* a time + sender line and a line of no pattern that follow the timestamp
StampFollowUp == <<"\n", "9", ":", "1", "5", " ", "B", "o", "b", ":", " ", "l", "u", "n", "c", "h", "\n", "h", "o", "w", " ", "a", "r", "e", " ", "y", "o", "u">>

\* the full timestamp lines that are followed by more lines: those of which
\* the hour and the minute are both beyond their range
StampCarried ==
  {FullLine(<<"2", "4">>, <<"6", "0">>, d, mo, y) :
     d \in StampDays, mo \in StampMonths, y \in StampYears}

\* the texts: nothing, a line of no pattern, each full timestamp line alone
\* and some of them followed by two more lines
StampTexts ==
  {<<>>, <<"h", "o", "w", " ", "a", "r", "e", " ", "y", "o", "u">>}
    \cup StampLines
    \cup {l \o StampFollowUp : l \in StampCarried}

StampInit == InitOn(StampTexts)

StampSpec == StampInit /\ [][Next]_vars

(***************************************************************************)
(* Parse calls on runs of lines that carry only a time                     *)
(***************************************************************************)

TimesInit == InitOn(RawTexts(TimeLines))

TimesSpec == TimesInit /\ [][Next]_vars

(***************************************************************************)
(* Several calls of parseWhatsAppMessages, one after the other or          *)
(* interleaved: each call has the argument and the locals of its own       *)
(***************************************************************************)

\* number of calls that are explored
MaxCalls == 2

\* the raw texts of the calls: a line of no pattern, a line with only a time,
\* continuation text and a full timestamp; a line with only a time; nothing
MorningText ==
  <<"h", "o", "w", " ", "a", "r", "e", " ", "y", "o", "u", "\n", "0", "9", ":", "0", "0", " ", "m", "s", "g", "1", "\n", "h", "o", "w", " ", "a", "r", "e", " ", "y", "o", "u", "\n", "[", "2", "3", ":", "5", "9", ",", " ", "3", "1", "/", "1", "2", "/", "2", "0", "2", "3", "]", " ", "A", "l", "i", "c", "e", ":", " ", "H", "e", "l", "l", "o">>

NightText == <<"2", "3", ":", "5", "0", " ", "m", "s", "g", "2">>

CallTexts == {<<>>, MorningText, NightText}

\* the readings of the clock at the entries of the calls
CallClock ==
  {[year |-> 2024, month |-> 0, date |-> 1,
    hours |-> 12, minutes |-> 34, seconds |-> 56, ms |-> 789],
   [year |-> 2024, month |-> 2, date |-> 15,
    hours |-> 8, minutes |-> 0, seconds |-> 0, ms |-> 1]}

\* the call that is running, as one value
Running ==
  [rawText |-> rawText, now |-> now, pc |-> pc, lines |-> lines, idx |-> idx,
   currentMessage |-> currentMessage, currentTimestamp |-> currentTimestamp,
   messages |-> messages]

CallsInit ==
  /\ rawText \in CallTexts
  /\ now \in CallClock
  /\ pc = "start"
  /\ lines = <<>>
  /\ idx = 1
  /\ currentMessage = <<>>
  /\ currentTimestamp = CHOOSE d \in CallClock : TRUE
  /\ messages = <<>>
  /\ NoCallers
  /\ NoStorage

\* parseWhatsAppMessages is called once more, after the running call has
\* returned or while it is in progress: the new call has an argument, a clock
\* reading and an empty messages array of its own; its other locals hold
\* nothing yet (here: what is left over) until StartLoop declares them
NextCall ==
  /\ calls < MaxCalls
  /\ calls' = calls + 1
  /\ suspended' = Append(suspended, Running)
  /\ rawText' \in CallTexts
  /\ now' \in CallClock
  /\ pc' = "start"
  /\ messages' = <<>>
  /\ UNCHANGED <<lines, idx, currentMessage, currentTimestamp>>
  /\ UNCHANGED <<captures, extracted, helper, request, storage>>

\* another call goes on: the running call is set aside with its locals, call
\* k is taken up with the locals it was set aside with
Switch ==
  \E k \in 1..Len(suspended) :
    /\ suspended[k].pc # "done"
    /\ suspended' = [suspended EXCEPT ![k] = Running]
    /\ rawText' = suspended[k].rawText
    /\ now' = suspended[k].now
    /\ pc' = suspended[k].pc
    /\ lines' = suspended[k].lines
    /\ idx' = suspended[k].idx
    /\ currentMessage' = suspended[k].currentMessage
    /\ currentTimestamp' = suspended[k].currentTimestamp
    /\ messages' = suspended[k].messages
    /\ UNCHANGED <<calls, captures, extracted, helper, request, storage>>

CallsNext ==
  \/ Next
  \/ NextCall
  \/ Switch

CallsSpec == CallsInit /\ [][CallsNext]_vars

(***************************************************************************)
(* extractMessagesFromCaptures: captures.map with a parse call per capture *)
(***************************************************************************)

\* number of captures of the arrays that are explored
MaxCaptures == 2

\* the instants the captures were taken at
CaptureTimes == CallClock

\* The captures the arrays are made of: as captureWhatsAppData builds them,
\* with an empty messages array and a screenshot or null, and one that holds
\* messages already and has no screenshot property
Captures ==
  {[timestamp |-> t, messages |-> <<>>, rawText |-> text, screenshot |-> shot] :
     t \in CaptureTimes, text \in {<<>>, MorningText}, shot \in {"frame", "null"}}
    \cup {[timestamp |-> t,
           messages |-> <<[timestamp |-> t, sender |-> <<"B", "o", "b">>, content |-> <<"o", "l", "d">>,
                           isMedia |-> FALSE, mediaType |-> Undefined, line |-> 1]>>,
           rawText |-> NightText] :
          t \in CaptureTimes}

CaptureArrays == UNION {[1..n -> Captures] : n \in 0..MaxCaptures}

\* extractMessagesFromCaptures is called: map starts on an empty array, no
\* parse call is in progress
ExtractInit ==
  /\ captures \in CaptureArrays
  /\ extracted = <<>>
  /\ rawText = <<>>
  /\ now \in Clock
  /\ pc = "idle"
  /\ lines = <<>>
  /\ idx = 1
  /\ currentMessage = <<>>
  /\ currentTimestamp = CHOOSE d \in Clock : TRUE
  /\ messages = <<>>
  /\ suspended = <<>>
  /\ calls = 0
  /\ helper = <<>>
  /\ request = <<>>
  /\ NoStorage

\* the callback of map is entered for the next capture:
\* parseWhatsAppMessages(capture.rawText) is called
ExtractCall ==
  /\ pc = "idle"
  /\ Len(extracted) < Len(captures)
  /\ rawText' = captures[Len(extracted) + 1].rawText
  /\ now' \in Clock
  /\ pc' = "start"
  /\ messages' = <<>>
  /\ calls' = calls + 1
  /\ UNCHANGED <<lines, idx, currentMessage, currentTimestamp>>
  /\ UNCHANGED <<suspended, captures, extracted, helper, request, storage>>

\* ExtractCollect with capture.messages assigned in place of the spread
ExtractCollectInPlace ==
  /\ pc = "done"
  /\ Len(extracted) < Len(captures)
  /\ captures' = [captures EXCEPT ![Len(extracted) + 1].messages = messages]
  /\ extracted' = Append(extracted, captures'[Len(extracted) + 1])
  /\ pc' = "idle"
  /\ UNCHANGED <<rawText, now, lines, idx, currentMessage, currentTimestamp, messages>>
  /\ UNCHANGED <<suspended, calls, helper, request, storage>>

\* the parse call has returned: ({...capture, messages: <what it returned>})
\* is the next element of the array that map returns
ExtractCollect ==
  /\ pc = "done"
  /\ Len(extracted) < Len(captures)
  /\ extracted' =
       Append(extracted, [captures[Len(extracted) + 1] EXCEPT !.messages = messages])
  /\ pc' = "idle"
  /\ UNCHANGED <<rawText, now, lines, idx, currentMessage, currentTimestamp, messages>>
  /\ UNCHANGED <<suspended, calls, captures, helper, request, storage>>

ExtractNext ==
  \/ ExtractCall
  \/ Next
  \/ ExtractCollect

ExtractSpec == ExtractInit /\ [][ExtractNext]_vars

(***************************************************************************)
(* The helpers on the messages that a parse call returned                  *)
(***************************************************************************)

\* grouped.has(sender): grouped is the Map, as its entries in insertion order
MapHas(grouped, key) == \E g \in 1..Len(grouped) : grouped[g].key = key

\* grouped.set(sender, []) for a sender that grouped has not
MapSet(grouped, key) == Append(grouped, [key |-> key, value |-> <<>>])

\* grouped.get(sender)!.push(message)
MapPush(grouped, key, message) ==
  [g \in 1..Len(grouped) |->
     IF grouped[g].key = key
     THEN [grouped[g] EXCEPT !.value = Append(@, message)]
     ELSE grouped[g]]

\* the key with upper and lower case taken as the same
SenderKeyLowerCase(message) == toLowerCase(message.sender)

\* const sender = message.sender
SenderKey(message) == message.sender

\* the body of for (const message of messages)
GroupInto(grouped, message) ==
  MapPush(IF MapHas(grouped, SenderKey(message)) THEN grouped
          ELSE MapSet(grouped, SenderKey(message)),
          SenderKey(message), message)

RECURSIVE groupMessagesBySender(_)
groupMessagesBySender(msgs) ==
  IF msgs = <<>> THEN <<>>
  ELSE GroupInto(groupMessagesBySender(SubSeq(msgs, 1, Len(msgs) - 1)), msgs[Len(msgs)])

\* the test of the filter with the case of the letters kept
SenderIncludesExactly(msg, sender) == includes(msg.sender, sender)

\* msg.sender.toLowerCase().includes(sender.toLowerCase())
SenderIncludes(msg, sender) == includes(toLowerCase(msg.sender), toLowerCase(sender))

\* messages.filter(...)
RECURSIVE filterMessagesBySender(_, _)
filterMessagesBySender(msgs, sender) ==
  IF msgs = <<>> THEN <<>>
  ELSE (IF SenderIncludes(Head(msgs), sender) THEN <<Head(msgs)>> ELSE <<>>)
         \o filterMessagesBySender(Tail(msgs), sender)

\* the sender arguments of filterMessagesBySender that are explored
FilterSenders ==
  {<<"b", "o", "b">>,
   <<"B">>,
   <<>>,
   <<"A", "L", "I", "C", "E">>,
   <<"k", "n", "o", "w", "n">>,
   <<"x">>}

HelperInit == InitOn(RawTexts(SenderLines))

\* groupMessagesBySender(messages) on what the parse call returned
Group ==
  /\ pc = "done"
  /\ helper = <<>>
  /\ helper' = <<[fn |-> "groupMessagesBySender", sender |-> <<>>,
                  returned |-> groupMessagesBySender(messages)]>>
  /\ UNCHANGED <<frame, suspended, calls, captures, extracted, request, storage>>

\* filterMessagesBySender(messages, sender) on what the parse call returned
Filter ==
  /\ pc = "done"
  /\ helper = <<>>
  /\ \E sender \in FilterSenders :
       helper' = <<[fn |-> "filterMessagesBySender", sender |-> sender,
                    returned |-> filterMessagesBySender(messages, sender)]>>
  /\ UNCHANGED <<frame, suspended, calls, captures, extracted, request, storage>>

HelperNext ==
  \/ Next
  \/ Group
  \/ Filter

HelperSpec == HelperInit /\ [][HelperNext]_vars

(***************************************************************************)
(* The storage layer: each operation loads the whole storage object,       *)
(* changes its copy and saves the whole.                                   *)
(* The clock counts days; an ISO string of toISOString() orders as         *)
(* the instant it denotes, so extractedAt > cutoffStr is the comparison of *)
(* two day counts.                                                         *)
(***************************************************************************)

MaxDay == 37

MaxTopics == 1

MaxStored == 2

\* the requests that are handled at the same time
MaxPending == 2

\* the default of the parameter maxDays of cleanupOldData
DefaultMaxDays == 30

\* what the clock advances by between two steps
DaySteps == {7, 30}

\* the retention periods a user configures
RetentionChoices == {7, 30}

\* the Topic objects handed to storeTopics; timestamp is <<day, hour>>
Topics ==
  {[title |-> <<"L", "u", "n", "c", "h">>, category |-> "work",
    timestamp |-> <<0, 9>>]}

TopicArrays == UNION {[1..n -> Topics] : n \in 0..MaxTopics}

\* the ActionItem objects handed to storeActionItems
ActionItems == {[task |-> "call Bob", completed |-> FALSE]}

ActionItemArrays == UNION {[1..n -> ActionItems] : n \in 0..MaxTopics}

\* the updates handed to updateActionItem
ItemUpdates == {[completed |-> TRUE]}

\* the DailySummary objects handed to storeDailySummary; date is <<day, hour>>
DailySummaries ==
  {[date |-> date, totalMessages |-> 1, overallSummary |-> text] :
     date \in {<<0, 9>>, <<0, 18>>, <<7, 18>>}, text \in {"quiet"}}

\* the random part of generateId: 9 characters, of which only that they differ
\* from one id to the next matters; they are told apart by a number
Randoms == 1..MaxStored

\* generateId: Date.now(), "-", 9 random characters
generateId(clock, random) == <<clock, random>>

\* an id that nothing stored has
UnknownId == <<0, 0>>

\* format(date, "yyyy-MM-dd"): the calendar day of an instant
format(date) == date[1]

\* loadSettings: the stored settings over the defaults
loadSettings(kept) == IF kept = <<>> THEN DEFAULT_SETTINGS ELSE kept[1]

\* the storage object loadStoredData returns when nothing usable is stored
EmptyStorage(clock) ==
  [topics |-> <<>>, summaries |-> <<>>, actionItems |-> <<>>,
   lastUpdated |-> clock]

\* loadStoredData: what is kept, or the empty storage when nothing is kept or
\* getCustomData has thrown
loadStoredData(kept, thrown, clock) ==
  IF thrown \/ kept = <<>> THEN EmptyStorage(clock) ELSE kept[1]

\* saveStoredData: data, stamped, is what is kept from now on
saveStoredData(data, clock) == <<[data EXCEPT !.lastUpdated = clock]>>

\* cleanupOldData(data, maxDays) at the clock reading clock
cleanupOldData(data, maxDays, clock) ==
  LET cutoffStr == clock - maxDays
      topicKept(topic) == topic.extractedAt > cutoffStr \/ ~topic.archived
      summaryKept(summary) == summary.createdAt > cutoffStr
      itemKept(item) == ~item.completed \/ item.updatedAt > cutoffStr
  IN  [data EXCEPT !.topics = SelectSeq(@, topicKept),
                   !.summaries = SelectSeq(@, summaryKept),
                   !.actionItems = SelectSeq(@, itemKept)]

\* array.findIndex(entry => entry.id === id), 0 for -1
findIndex(array, id) ==
  IF \E i \in 1..Len(array) : array[i].id = id
  THEN CHOOSE i \in 1..Len(array) :
         /\ array[i].id = id
         /\ \A j \in 1..(i - 1) : array[j].id # id
  ELSE 0

\* data.summaries.findIndex(s => s.date === date), 0 for -1
findIndexOfDate(summaries, date) ==
  IF \E i \in 1..Len(summaries) : summaries[i].date = date
  THEN CHOOSE i \in 1..Len(summaries) :
         /\ summaries[i].date = date
         /\ \A j \in 1..(i - 1) : summaries[j].date # date
  ELSE 0

\* the StoredTopic objects storeTopics makes of topics
StampedTopics(topics, random, clock) ==
  [i \in 1..Len(topics) |->
     [title |-> topics[i].title, category |-> topics[i].category,
      timestamp |-> topics[i].timestamp,
      id |-> generateId(clock, random[i]),
      extractedAt |-> clock, archived |-> FALSE]]

\* storeTopics after the load: the new topics are appended and the old data
\* is cleaned up
storeTopics(data, topics, random, clock) ==
  cleanupOldData(
    [data EXCEPT !.topics = @ \o StampedTopics(topics, random, clock)],
    DefaultMaxDays, clock)

\* the StoredActionItem objects storeActionItems makes of actionItems
StampedItems(actionItems, random, clock) ==
  [i \in 1..Len(actionItems) |->
     [task |-> actionItems[i].task, completed |-> actionItems[i].completed,
      id |-> generateId(clock, random[i]),
      createdAt |-> clock, updatedAt |-> clock]]

\* storeActionItems after the load
storeActionItems(data, actionItems, random, clock) ==
  [data EXCEPT !.actionItems = @ \o StampedItems(actionItems, random, clock)]

\* the StoredSummary storeDailySummary makes of summary
StampedSummary(summary, random, clock) ==
  [id |-> generateId(clock, random), date |-> format(summary.date),
   summary |-> summary, createdAt |-> clock]

\* the summary put at the end of the array, for a date that has none
SummaryPushed(data, storedSummary) ==
  [data EXCEPT !.summaries = Append(@, storedSummary)]

\* SummaryPlaced without the test of existingIndex: always pushed
SummaryAlwaysPushed(data, storedSummary, existingIndex) ==
  SummaryPushed(data, storedSummary)

\* the summary put in the place of the one of its date, or pushed
SummaryPlaced(data, storedSummary, existingIndex) ==
  IF existingIndex > 0
  THEN [data EXCEPT !.summaries[existingIndex] = storedSummary]
  ELSE SummaryPushed(data, storedSummary)

\* storeDailySummary after the load
storeDailySummary(data, summary, random, clock) ==
  SummaryPlaced(data, StampedSummary(summary, random, clock),
                findIndexOfDate(data.summaries, format(summary.date)))

\* getTopicsForDate after the load
getTopicsForDate(data, date) ==
  SelectSeq(data.topics,
    LAMBDA topic : format(topic.timestamp) = format(date) /\ ~topic.archived)

\* getTopicsByCategory after the load
getTopicsByCategory(data, category) ==
  SelectSeq(data.topics,
    LAMBDA topic : topic.category = category /\ ~topic.archived)

\* searchTopics with the archived topics searched too
searchTopicsArchivedToo(data, query) ==
  SelectSeq(data.topics,
    LAMBDA topic : includes(toLowerCase(topic.title), toLowerCase(query)))

\* searchTopics after the load; of the texts of a topic the title is kept
searchTopics(data, query) ==
  SelectSeq(data.topics,
    LAMBDA topic :
      /\ ~topic.archived
      /\ includes(toLowerCase(topic.title), toLowerCase(query)))

\* the topics, the summaries and the action items kept in storage
StoredTopics == IF stored = <<>> THEN <<>> ELSE stored[1].topics

StoredSummaries == IF stored = <<>> THEN <<>> ELSE stored[1].summaries

StoredItems == IF stored = <<>> THEN <<>> ELSE stored[1].actionItems

\* the number of entries kept in storage
Entries == Len(StoredTopics) + Len(StoredSummaries) + Len(StoredItems)

\* the ids of the entries of an array
IdsOf(array) == {array[i].id : i \in 1..Len(array)}

\* the ids generated with the random parts random at the clock reading clock
\* are new: they differ from each other, from the ids in data and from the
\* ids in storage
Fresh(random, data, clock) ==
  /\ \A i, j \in DOMAIN random : random[i] = random[j] => i = j
  /\ \A i \in DOMAIN random :
       generateId(clock, random[i]) \notin
         IdsOf(data.topics) \cup IdsOf(data.summaries)
           \cup IdsOf(data.actionItems) \cup IdsOf(StoredTopics)
           \cup IdsOf(StoredSummaries) \cup IdsOf(StoredItems)

\* the array without its entry k
Without(array, k) ==
  [i \in 1..(Len(array) - 1) |-> IF i < k THEN array[i] ELSE array[i + 1]]

StorageInit ==
  /\ rawText = <<>>
  /\ now = CHOOSE d \in Clock : TRUE
  /\ pc = "idle"
  /\ lines = <<>>
  /\ idx = 1
  /\ currentMessage = <<>>
  /\ currentTimestamp = CHOOSE d \in Clock : TRUE
  /\ messages = <<>>
  /\ suspended = <<>>
  /\ calls = 0
  /\ captures = <<>>
  /\ extracted = <<>>
  /\ helper = <<>>
  /\ request = <<>>
  /\ NoStorage

\* the outcomes of getCustomData: it returns, or it throws
Reads == BOOLEAN

\* getCustomData returns
Returns == {FALSE}

\* a storage operation is called while fewer than limit operations are in
\* progress, and awaits loadStoredData(); thrown tells if getCustomData throws
Called(fn, args, limit, reads) ==
  /\ Len(op) < limit
  /\ \E thrown \in reads :
       op' = Append(op, [fn |-> fn, args |-> args, thrown |-> thrown,
                         data |-> loadStoredData(stored, thrown, today)])
  /\ UNCHANGED <<frame, suspended, calls, captures, extracted, helper>>
  /\ UNCHANGED <<stored, settings, today>>

\* the call is made by other than the handler of an API request
Load(fn, args, limit, reads) ==
  Called(fn, args, limit, reads) /\ UNCHANGED request

\* operation k goes on after its load, to await saveStoredData(data)
Save(k, data) ==
  /\ stored' = saveStoredData(data, today)
  /\ op' = Without(op, k)
  /\ UNCHANGED <<frame, callers, settings, today>>

\* operation k goes on after its load and returns without a save
Return(k) ==
  /\ op' = Without(op, k)
  /\ UNCHANGED <<frame, callers, stored, settings, today>>

\* operation k in progress is a call of fn
Awaits(k, fn) == k \in 1..Len(op) /\ op[k].fn = fn

\* storeTopics(topics) is called
StoreTopicsLoad(limit, reads) ==
  \E topics \in TopicArrays :
    /\ Entries + Len(topics) <= MaxStored
    /\ Load("storeTopics", topics, limit, reads)

\* the rest of storeTopics
StoreTopicsSave ==
  \E k \in 1..Len(op) :
    /\ Awaits(k, "storeTopics")
    /\ \E random \in [1..Len(op[k].args) -> Randoms] :
         /\ Fresh(random, op[k].data, today)
         /\ Save(k, storeTopics(op[k].data, op[k].args, random, today))

\* storeActionItems(actionItems) is called
StoreActionItemsLoad(limit, reads) ==
  \E actionItems \in ActionItemArrays :
    /\ Entries + Len(actionItems) <= MaxStored
    /\ Load("storeActionItems", actionItems, limit, reads)

\* the rest of storeActionItems
StoreActionItemsSave ==
  \E k \in 1..Len(op) :
    /\ Awaits(k, "storeActionItems")
    /\ \E random \in [1..Len(op[k].args) -> Randoms] :
         /\ Fresh(random, op[k].data, today)
         /\ Save(k, storeActionItems(op[k].data, op[k].args, random, today))

\* storeDailySummary(summary) is called
StoreDailySummaryLoad(limit, reads) ==
  \E summary \in DailySummaries :
    /\ Entries < MaxStored
         \/ findIndexOfDate(StoredSummaries, format(summary.date)) > 0
    /\ Load("storeDailySummary", summary, limit, reads)

\* the rest of storeDailySummary
StoreDailySummarySave ==
  \E k \in 1..Len(op) :
    /\ Awaits(k, "storeDailySummary")
    /\ \E random \in Randoms :
         /\ Fresh(<<random>>, op[k].data, today)
         /\ Save(k, storeDailySummary(op[k].data, op[k].args, random, today))

\* updateActionItem(id, updates) is called
UpdateActionItemLoad(limit, reads) ==
  \E id \in IdsOf(StoredItems) \cup {UnknownId}, updates \in ItemUpdates :
    Load("updateActionItem", [id |-> id, updates |-> updates], limit, reads)

\* the rest of updateActionItem: the item found takes the updates and the
\* whole is saved; nothing is saved when no item has the id
UpdateActionItemSave ==
  \E k \in 1..Len(op) :
    /\ Awaits(k, "updateActionItem")
    /\ LET data == op[k].data
           index == findIndex(data.actionItems, op[k].args.id)
       IN  IF index > 0
           THEN Save(k, [data EXCEPT
                           !.actionItems[index].completed = op[k].args.updates.completed,
                           !.actionItems[index].updatedAt = today])
           ELSE Return(k)

\* archiveTopic(id) is called
ArchiveTopicLoad(limit, reads) ==
  \E id \in IdsOf(StoredTopics) \cup {UnknownId} :
    Load("archiveTopic", id, limit, reads)

\* the rest of archiveTopic: the topic found is flagged and the whole is
\* saved; nothing is saved when no topic has the id
ArchiveTopicSave ==
  \E k \in 1..Len(op) :
    /\ Awaits(k, "archiveTopic")
    /\ LET data == op[k].data
           index == findIndex(data.topics, op[k].args)
       IN  IF index > 0
           THEN Save(k, [data EXCEPT !.topics[index].archived = TRUE])
           ELSE Return(k)

\* operation k goes on after its load and returns value without a save
ReturnValue(k, value) ==
  /\ helper' = <<[fn |-> op[k].fn, args |-> op[k].args, returned |-> value]>>
  /\ op' = Without(op, k)
  /\ UNCHANGED <<frame, suspended, calls, captures, extracted, request>>
  /\ UNCHANGED <<stored, settings, today>>

\* the dates, the categories and the queries that topics are asked for
QueryDates == {<<0, 18>>, <<7, 18>>}

QueryCategories == {"work", "personal"}

Queries == {<<"l", "u", "n", "c", "h">>, <<"x">>}

\* getTopicsForDate(date) is called
GetTopicsForDateLoad(limit, reads) ==
  \E date \in QueryDates : Load("getTopicsForDate", date, limit, reads)

GetTopicsForDateReturn ==
  \E k \in 1..Len(op) :
    /\ Awaits(k, "getTopicsForDate")
    /\ ReturnValue(k, getTopicsForDate(op[k].data, op[k].args))

\* getTopicsByCategory(category) is called
GetTopicsByCategoryLoad(limit, reads) ==
  \E category \in QueryCategories :
    Load("getTopicsByCategory", category, limit, reads)

GetTopicsByCategoryReturn ==
  \E k \in 1..Len(op) :
    /\ Awaits(k, "getTopicsByCategory")
    /\ ReturnValue(k, getTopicsByCategory(op[k].data, op[k].args))

\* searchTopics(query) is called
SearchTopicsLoad(limit, reads) ==
  \E query \in Queries : Load("searchTopics", query, limit, reads)

SearchTopicsReturn ==
  \E k \in 1..Len(op) :
    /\ Awaits(k, "searchTopics")
    /\ ReturnValue(k, searchTopics(op[k].data, op[k].args))

\* storeTopics and archiveTopic called one at a time
StoreTopicsCall == StoreTopicsLoad(1, Reads)

ArchiveTopicCall == ArchiveTopicLoad(1, Reads)

\* updateSettings({maxDaysToKeep}): the loaded settings with the update over
\* them are saved
UpdateSettings ==
  /\ \E maxDaysToKeep \in RetentionChoices :
       settings' = <<[loadSettings(settings) EXCEPT
                        !.maxDaysToKeep = maxDaysToKeep]>>
  /\ settings' # settings
  /\ UNCHANGED <<frame, callers, stored, today, op>>

\* days days pass
Passes(days) ==
  /\ today + days <= MaxDay
  /\ today' = today + days
  /\ UNCHANGED <<frame, callers, stored, settings, op>>

\* time passes
Tick == \E days \in DaySteps : Passes(days)

\* the default retention period passes
MonthPasses == Passes(DefaultMaxDays)

StorageNext ==
  \/ StoreTopicsCall
  \/ StoreTopicsSave
  \/ ArchiveTopicCall
  \/ ArchiveTopicSave
  \/ UpdateSettings
  \/ Tick

StorageSpec == StorageInit /\ [][StorageNext]_vars


(***************************************************************************)
(* Calls of storeDailySummary, one at a time                               *)
(***************************************************************************)

StoreDailySummaryCall == StoreDailySummaryLoad(1, Reads)

SummaryNext ==
  \/ StoreDailySummaryCall
  \/ StoreDailySummarySave
  \/ Tick

SummarySpec == StorageInit /\ [][SummaryNext]_vars

(***************************************************************************)
(* Storage operations of API requests that are handled at the same time:   *)
(* each await lets another request go on                                   *)
(***************************************************************************)

RaceNext ==
  \/ StoreTopicsLoad(MaxPending, Returns)
  \/ StoreTopicsSave
  \/ StoreActionItemsLoad(MaxPending, Returns)
  \/ StoreActionItemsSave
  \/ StoreDailySummaryLoad(MaxPending, Returns)
  \/ StoreDailySummarySave
  \/ UpdateActionItemLoad(MaxPending, Returns)
  \/ UpdateActionItemSave
  \/ ArchiveTopicLoad(MaxPending, Returns)
  \/ ArchiveTopicSave

RaceSpec == StorageInit /\ [][RaceNext]_vars

(***************************************************************************)
(* The storing operations, one at a time, with reads that can fail         *)
(***************************************************************************)

StoreActionItemsCall == StoreActionItemsLoad(1, Reads)

FaultNext ==
  \/ StoreTopicsCall
  \/ StoreTopicsSave
  \/ StoreActionItemsCall
  \/ StoreActionItemsSave
  \/ StoreDailySummaryCall
  \/ StoreDailySummarySave

FaultSpec == StorageInit /\ [][FaultNext]_vars

(***************************************************************************)
(* All the operations on topics and action items, and the queries, one at  *)
(* a time, while time passes                                               *)
(***************************************************************************)

UpdateActionItemCall == UpdateActionItemLoad(1, Reads)

GetTopicsForDateCall == GetTopicsForDateLoad(1, Reads)

GetTopicsByCategoryCall == GetTopicsByCategoryLoad(1, Reads)

SearchTopicsCall == SearchTopicsLoad(1, Reads)

ArchiveNext ==
  \/ StoreTopicsCall
  \/ StoreTopicsSave
  \/ StoreActionItemsCall
  \/ StoreActionItemsSave
  \/ UpdateActionItemCall
  \/ UpdateActionItemSave
  \/ ArchiveTopicCall
  \/ ArchiveTopicSave
  \/ GetTopicsForDateCall
  \/ GetTopicsForDateReturn
  \/ GetTopicsByCategoryCall
  \/ GetTopicsByCategoryReturn
  \/ SearchTopicsCall
  \/ SearchTopicsReturn
  \/ MonthPasses

ArchiveSpec == StorageInit /\ [][ArchiveNext]_vars

(***************************************************************************)
(* The API route: GET with action=extract or action=summary, one request   *)
(* at a time. A handler is followed from one await to the next; the calls  *)
(* to screenpipe and to the AI provider return what they will or throw.    *)
(***************************************************************************)

\* number of requests that are followed
MaxRequests == 2

\* the hour of the day the requests arrive at
RequestHour == 9

\* new Date() in a handler
NewDateNow == <<today, RequestHour>>

\* the sender lists of the settings that are explored
ExcludeLists == {<<>>, <<<<"b", "o", "b">>>>}

IncludeLists == {<<>>, <<<<"B">>>>, <<<<"a", "l", "i", "c", "e">>, <<"x">>>>}

\* the updates of the settings that are explored
SenderSettings ==
  {[enabled |-> enabled, excludeSenders |-> excluded,
    includeOnlySenders |-> included] :
     enabled \in BOOLEAN, excluded \in ExcludeLists, included \in IncludeLists}

\* list.some(entry => sender.toLowerCase().includes(entry.toLowerCase()))
SomeIncluded(list, sender) ==
  \E i \in 1..Len(list) : includes(toLowerCase(sender), toLowerCase(list[i]))

\* shouldProcessSender with the include list looked at before the exclude list
shouldProcessSenderIncludeFirst(sender, current) ==
  IF Len(current.includeOnlySenders) > 0
       /\ SomeIncluded(current.includeOnlySenders, sender)
  THEN TRUE
  ELSE IF Len(current.excludeSenders) > 0
            /\ SomeIncluded(current.excludeSenders, sender)
  THEN FALSE
  ELSE Len(current.includeOnlySenders) = 0

shouldProcessSender(sender, current) ==
  IF Len(current.excludeSenders) > 0
       /\ SomeIncluded(current.excludeSenders, sender)
  THEN FALSE
  ELSE IF Len(current.includeOnlySenders) > 0
  THEN SomeIncluded(current.includeOnlySenders, sender)
  ELSE TRUE

\* capturesWithMessages.flatMap(c => c.messages)
RECURSIVE flatMapMessages(_)
flatMapMessages(withMessages) ==
  IF withMessages = <<>> THEN <<>>
  ELSE Head(withMessages).messages \o flatMapMessages(Tail(withMessages))

\* allMessages.filter(msg => shouldProcessSender(msg.sender, settings))
filterAllMessages(withMessages, current) ==
  SelectSeq(flatMapMessages(withMessages),
            LAMBDA msg : shouldProcessSender(msg.sender, current))

\* generateDailySummary: the date is the instant of the call; of the rest,
\* what is counted of the messages
generateDailySummary(topics, msgs, date) ==
  [date |-> date, totalMessages |-> Len(msgs), overallSummary |-> "quiet"]

\* the texts that screenpipe has captured: an empty one, a message of Bob
\* with a line before it and a line after it, a message of Alice
PipeTexts ==
  {<<>>,
   <<"h", "o", "w", " ", "a", "r", "e", " ", "y", "o", "u", "\n",
     "9", ":", "1", "5", " ", "B", "o", "b", ":", " ", "l", "u", "n", "c", "h", "\n",
     "h", "o", "w", " ", "a", "r", "e", " ", "y", "o", "u">>,
   <<"[", "1", "0", ":", "3", "0", ",", " ", "1", "/", "1", "/", "2", "0", "2", "4", "]", " ", "A", "l", "i", "c", "e", ":", " ", "H", "e", "l", "l", "o">>}

\* the captures as captureWhatsAppData builds them
PipeCaptures ==
  {[timestamp |-> CHOOSE t \in CaptureTimes : TRUE, messages |-> <<>>,
    rawText |-> text, screenshot |-> "null"] : text \in PipeTexts}

PipeCaptureArrays == UNION {[1..n -> PipeCaptures] : n \in 0..MaxCaptures}

\* the actions of GET that are followed; any other is the default of the switch
Actions == {"extract", "summary", "other"}

\* the request that is being handled, and whether one is
Request == request[1]

Handling == request # <<>> /\ Request.at # "responded"

At(action, at) ==
  request # <<>> /\ Request.action = action /\ Request.at = at

\* NextResponse.json(body, {status})
Json(status, message, details) ==
  [status |-> status, message |-> message, details |-> details]

\* what a handler leaves alone besides the request and the captures
HandlerKeeps == <<frame, suspended, calls, helper>>

\* the handler returns response, or GET does for what the handler threw
Respond(response) ==
  /\ request' = <<[action |-> Request.action, n |-> Request.n,
                   at |-> "responded", settings |-> <<>>,
                   allMessages |-> <<>>, topics |-> <<>>,
                   response |-> <<response>>]>>
  /\ captures' = <<>>
  /\ extracted' = <<>>

\* the handler goes on to at
GoesOn(at) == request' = <<[Request EXCEPT !.at = at]>>

\* updateSettings(updates) from the settings page, between two requests
ConfigureSenders ==
  /\ ~Handling
  /\ \E updates \in SenderSettings :
       settings' = <<[loadSettings(settings) EXCEPT
                        !.enabled = updates.enabled,
                        !.excludeSenders = updates.excludeSenders,
                        !.includeOnlySenders = updates.includeOnlySenders]>>
  /\ settings' # settings
  /\ UNCHANGED <<frame, callers, stored, today, op>>

\* GET is called: the handler of the action is entered, or the default of
\* the switch answers
Get ==
  /\ ~Handling
  /\ op = <<>>
  /\ (IF request = <<>> THEN 0 ELSE Request.n) < MaxRequests
  /\ \E action \in Actions :
       /\ action = "summary" =>
            \/ Entries < MaxStored
            \/ findIndexOfDate(StoredSummaries, format(NewDateNow)) > 0
       /\ request' =
            <<[action |-> action,
               n |-> (IF request = <<>> THEN 0 ELSE Request.n) + 1,
               at |-> IF action = "other" THEN "responded" ELSE "loadSettings",
               settings |-> <<>>, allMessages |-> <<>>, topics |-> <<>>,
               response |-> IF action = "other"
                            THEN <<Json(400, "Invalid action", "")>>
                            ELSE <<>>]>>
  /\ UNCHANGED <<frame, suspended, calls, captures, extracted, helper, storage>>

\* await loadSettings(): the settings kept merged over the defaults; the
\* defaults, which are saved, when nothing is kept; the defaults when
\* getCustomSettings throws. handleExtractTopics returns when the pipe is
\* disabled
HandlerLoadSettings ==
  /\ request # <<>>
  /\ Request.at = "loadSettings"
  /\ \E thrown \in BOOLEAN :
       LET loaded == IF thrown THEN DEFAULT_SETTINGS ELSE loadSettings(settings)
       IN  /\ settings' = IF ~thrown /\ settings = <<>>
                          THEN <<DEFAULT_SETTINGS>>
                          ELSE settings
           /\ IF Request.action = "extract" /\ ~loaded.enabled
              THEN Respond(Json(200, "WhatsApp Topics pipe is disabled", ""))
              ELSE /\ request' = <<[Request EXCEPT !.at = "capture",
                                                   !.settings = <<loaded>>]>>
                   /\ UNCHANGED <<captures, extracted>>
  /\ UNCHANGED <<HandlerKeeps, stored, today, op>>

\* await captureWhatsAppData(hours): it throws, or returns the captures;
\* handleExtractTopics returns when there are none
HandlerCapture ==
  /\ request # <<>>
  /\ Request.at = "capture"
  /\ \/ Respond(Json(500, "Internal server error", "captureWhatsAppData"))
     \/ \E array \in PipeCaptureArrays :
          IF Request.action = "extract" /\ Len(array) = 0
          THEN Respond(Json(200, "No WhatsApp data found", ""))
          ELSE /\ GoesOn("extractMessages")
               /\ captures' = array
               /\ extracted' = <<>>
  /\ UNCHANGED <<HandlerKeeps, storage>>

\* extractMessagesFromCaptures has returned: the messages are filtered by
\* sender. With none left the handler returns; handleExtractTopics goes on to
\* await extractTopics, handleDailySummary to await getTopicsForDate(new Date())
HandlerFilter ==
  /\ request # <<>>
  /\ Request.at = "extractMessages"
  /\ pc = "idle"
  /\ Len(extracted) = Len(captures)
  /\ LET allMessages == filterAllMessages(extracted, Request.settings[1])
     IN  IF Len(allMessages) = 0
         THEN /\ Respond(Json(200, IF Request.action = "extract"
                                   THEN "No messages found after filtering"
                                   ELSE "No messages found for today", ""))
              /\ UNCHANGED <<HandlerKeeps, storage>>
         ELSE IF Request.action = "extract"
         THEN /\ request' = <<[Request EXCEPT !.at = "extractTopics",
                                              !.allMessages = allMessages]>>
              /\ UNCHANGED <<captures, extracted, HandlerKeeps, storage>>
         ELSE /\ request' = <<[Request EXCEPT !.at = "getTopicsForDate",
                                              !.allMessages = allMessages]>>
              /\ Called("getTopicsForDate", NewDateNow, 1, Reads)

\* await extractTopics(allMessages, ...): it throws, and GET answers 500, or
\* returns the topics, and storeTopics is called with them
HandlerExtractTopics ==
  /\ At("extract", "extractTopics")
  /\ \/ /\ Respond(Json(500, "Internal server error", "extractTopics"))
        /\ UNCHANGED <<HandlerKeeps, storage>>
     \/ \E topics \in TopicArrays :
          /\ Entries + Len(topics) <= MaxStored
          /\ request' = <<[Request EXCEPT !.at = "storeTopics",
                                          !.topics = topics]>>
          /\ Called("storeTopics", topics, 1, Reads)

\* storeTopics has returned: extractActionItems is awaited
HandlerStoredTopics ==
  /\ At("extract", "storeTopics")
  /\ op = <<>>
  /\ GoesOn("extractActionItems")
  /\ UNCHANGED <<captures, extracted, HandlerKeeps, storage>>

\* the body of the success response of handleExtractTopics
Extracted == Json(200, "Topics extracted successfully", "")

\* HandlerExtractActionItems with the failure of the extraction thrown on to GET
HandlerExtractActionItemsThrows ==
  /\ At("extract", "extractActionItems")
  /\ \E failed \in BOOLEAN, items \in ActionItemArrays :
       /\ Entries + Len(items) <= MaxStored
       /\ IF failed
          THEN /\ Respond(Json(500, "Internal server error", "extractActionItems"))
               /\ UNCHANGED <<HandlerKeeps, storage>>
          ELSE IF Len(items) > 0
          THEN /\ GoesOn("storeActionItems")
               /\ Called("storeActionItems", items, 1, Reads)
          ELSE /\ Respond(Extracted)
               /\ UNCHANGED <<HandlerKeeps, storage>>

\* await extractActionItems(allMessages, ...): it returns the action items,
\* or [] when the extraction failed; storeActionItems is called if there are
\* any, else the handler returns
HandlerExtractActionItems ==
  /\ At("extract", "extractActionItems")
  /\ \E failed \in BOOLEAN, items \in ActionItemArrays :
       LET actionItems == IF failed THEN <<>> ELSE items
       IN  /\ Entries + Len(actionItems) <= MaxStored
           /\ IF Len(actionItems) > 0
              THEN /\ GoesOn("storeActionItems")
                   /\ Called("storeActionItems", actionItems, 1, Reads)
              ELSE /\ Respond(Extracted)
                   /\ UNCHANGED <<HandlerKeeps, storage>>

\* storeActionItems has returned: the handler returns
HandlerStoredActionItems ==
  /\ At("extract", "storeActionItems")
  /\ op = <<>>
  /\ Respond(Extracted)
  /\ UNCHANGED <<HandlerKeeps, storage>>

\* getTopicsForDate has returned: the summary is generated from the topics
\* of today and the messages, and storeDailySummary is called with it
HandlerSummarise ==
  /\ At("summary", "getTopicsForDate")
  /\ op = <<>>
  /\ GoesOn("storeDailySummary")
  /\ Called("storeDailySummary",
            generateDailySummary(helper[1].returned, Request.allMessages,
                                 NewDateNow), 1, Reads)

\* storeDailySummary has returned: the handler returns
HandlerStoredSummary ==
  /\ At("summary", "storeDailySummary")
  /\ op = <<>>
  /\ Respond(Json(200, "Daily summary generated", ""))
  /\ UNCHANGED <<HandlerKeeps, storage>>

PipeNext ==
  \/ ConfigureSenders
  \/ Get
  \/ HandlerLoadSettings
  \/ HandlerCapture
  \/ ExtractCall
  \/ Next
  \/ ExtractCollect
  \/ HandlerFilter
  \/ HandlerExtractTopics
  \/ StoreTopicsSave
  \/ HandlerStoredTopics
  \/ HandlerExtractActionItems
  \/ StoreActionItemsSave
  \/ HandlerStoredActionItems
  \/ GetTopicsForDateReturn
  \/ HandlerSummarise
  \/ StoreDailySummarySave
  \/ HandlerStoredSummary

PipeSpec == StorageInit /\ [][PipeNext]_vars

(***************************************************************************)
(* Properties                                                              *)
(***************************************************************************)

\* line i of lines starts a new message
Matched(i) == Match(lines[i]) # <<>>

\* the matched lines among the first n lines
MatchedUpTo(n) == {i \in 1..n : i <= Len(lines) /\ Matched(i)}

\* the first matched line after line i, Len(lines) + 1 when there is none
NextMatched(i) ==
  LET later == {j \in (i + 1)..Len(lines) : Matched(j)}
  IN  IF later = {} THEN Len(lines) + 1 ELSE Min(later)

\* the loop has handled line idx - 1 and is about to go on
Processed == pc = "loop" /\ idx > 1 /\ idx <= Len(lines) + 1

\* the line the loop handled last
LastLine == lines[idx - 1]

\* the line handled last was taken as the start of a new message
ClassifiedNew == currentMessage # <<>> /\ currentMessage[1].line = idx - 1

\* how far a call is from its return: the stage it is in, then the lines left
Variant ==
  CASE pc = "start" -> Len(rawText) + 4
    [] pc = "loop"  -> (Len(lines) + 1 - idx) + 2
    [] pc = "media" -> 1
    [] pc = "done"  -> 0

\* C1: for every raw text the parse terminates and returns: every step brings
\* the return closer, the return is reached exactly when nothing is left to
\* do, and the loop goes through the lines one by one, so that at the return
\* each line was handled once
Totality ==
  /\ [][Variant' < Variant]_vars
  /\ [](Variant >= 0 /\ (Variant = 0 <=> pc = "done"))
  /\ [][idx' # idx => pc = "loop" /\ idx <= Len(lines) /\ idx' = idx + 1]_vars
  /\ [](pc = "done" => idx = Len(lines) + 1)

\* C1 witness: a parse of a three-line text has returned
TotalityWitness == pc = "done" /\ Len(lines) = 3 /\ idx = 4

\* C2: no emitted message has empty trimmed content
NoEmptyContent ==
  \A i \in 1..Len(messages) : Trim(messages[i].content) # <<>>

\* C2 witness: the parse returned messages, one of them with continuation
\* text, and left out a matched line whose body was empty
NoEmptyContentWitness ==
  /\ pc = "done"
  /\ \E i \in 1..Len(lines) :
       /\ Matched(i)
       /\ Trim(Match(lines[i])[2].content) = <<>>
       /\ \A j \in 1..Len(messages) : messages[j].line # i
  /\ \E j \in 1..Len(messages) :
       messages[j].line < Len(lines) /\ ~Matched(messages[j].line + 1)

\* C3: the emitted messages are in the order of the matched lines they come
\* from, each from a matched line and none twice
OrderPreserved ==
  /\ \A i \in 1..Len(messages) :
       messages[i].line \in 1..Len(lines) /\ Matched(messages[i].line)
  /\ \A i, j \in 1..Len(messages) :
       i < j => messages[i].line < messages[j].line

\* C3 witness: three messages were returned
OrderPreservedWitness == pc = "done" /\ Len(messages) = 3

\* C4: in the returned sequence mediaType is present iff isMedia is true
MediaTypeIffIsMedia ==
  pc = "done" =>
    \A i \in 1..Len(messages) :
      (messages[i].mediaType # Undefined) <=> messages[i].isMedia

\* C4 witness: a media message and a message that is none were returned
MediaTypeIffIsMediaWitness ==
  /\ pc = "done"
  /\ \E i, j \in 1..Len(messages) :
       /\ messages[i].isMedia /\ messages[i].mediaType = "unknown"
       /\ ~messages[j].isMedia /\ messages[j].mediaType = Undefined

\* C5: the content of every emitted message is trimmed
ContentTrimmed ==
  \A i \in 1..Len(messages) : messages[i].content = Trim(messages[i].content)

\* the content the message started by line i has once line j >= i is handled:
\* the body of line i, then each later line trimmed, after one space
RECURSIVE Accumulated(_, _)
Accumulated(i, j) ==
  IF j <= i THEN Trim(Match(lines[i])[2].content)
  ELSE Accumulated(i, j - 1) \o <<" ">> \o Trim(lines[j])

\* the time of day and, for a full timestamp, the date written on matched
\* line i are those of timestamp ts (stated for components that are in range)
StampFromLine(ts, i) ==
  LET k   == Match(lines[i])[1]
      m   == Match(lines[i])[2]
      hm  == split(m.time, ":")
      dmy == split(m.date, "/")
  IN  /\ (Number(hm[1]) < 24 /\ Number(hm[2]) < 60) =>
           /\ ts.hours = Number(hm[1]) /\ ts.minutes = Number(hm[2])
           /\ ts.seconds = 0 /\ ts.ms = 0
      /\ (/\ k = 0
          /\ Number(hm[1]) < 24 /\ Number(hm[2]) < 60
          /\ Number(dmy[1]) \in 1..28 /\ Number(dmy[2]) \in 1..12
          /\ Number(dmy[3]) >= 100) =>
           /\ ts.date = Number(dmy[1]) /\ ts.month + 1 = Number(dmy[2])
           /\ ts.year = Number(dmy[3])

\* the sender written on matched line i
SenderFromLine(i) ==
  IF Match(lines[i])[1] = 3 THEN <<"U", "n", "k", "n", "o", "w", "n">>
  ELSE Trim(Match(lines[i])[2].sender)

\* C6: a matched line followed by unmatched lines yields exactly one message,
\* with the sender and the timestamp of the matched line and as content the
\* body of the matched line followed by each unmatched line, trimmed, in input
\* order, each after exactly one space; while these lines are handled the
\* message in progress is that message (the accumulator stays Accumulating)
ContinuationAccumulated ==
  /\ pc = "loop" =>
       \A i \in MatchedUpTo(idx - 1) :
         NextMatched(i) >= idx =>
           /\ currentMessage # <<>>
           /\ currentMessage[1].line = i
           /\ currentMessage[1].content = Accumulated(i, idx - 1)
           /\ currentMessage[1].sender = SenderFromLine(i)
           /\ StampFromLine(currentMessage[1].timestamp, i)
  /\ pc = "done" =>
       \A i \in MatchedUpTo(Len(lines)) :
         NextMatched(i) > i + 1 =>
           /\ Cardinality({j \in 1..Len(messages) : messages[j].line = i}) = 1
           /\ \A j \in 1..Len(messages) :
                messages[j].line = i =>
                  /\ messages[j].content = Accumulated(i, NextMatched(i) - 1)
                  /\ messages[j].sender = SenderFromLine(i)
                  /\ StampFromLine(messages[j].timestamp, i)

\* C6 witness: a matched line with a body and two continuation lines, the
\* second with white space around it, gave one message
ContinuationAccumulatedWitness ==
  /\ pc = "done"
  /\ Len(lines) = 3 /\ Matched(1) /\ ~Matched(2) /\ ~Matched(3)
  /\ Trim(Match(lines[1])[2].content) # <<>>
  /\ lines[3] # Trim(lines[3])
  /\ Len(messages) = 1
  /\ messages[1].content = Accumulated(1, 3)

\* the match the priority order full, time+sender, sender+time, time-only
\* gives line l, as <<pattern, match>>, <<>> when no pattern matches
PriorityMatch(l) ==
  IF MatchFull(l, MinuteDigits).ok THEN <<0, MatchFull(l, MinuteDigits)>>
  ELSE IF MatchTimeSender(l, MinuteDigits).ok THEN <<1, MatchTimeSender(l, MinuteDigits)>>
  ELSE IF MatchSenderTime(l, MinuteDigits).ok THEN <<2, MatchSenderTime(l, MinuteDigits)>>
  ELSE IF MatchTimeOnly(l, MinuteDigits).ok THEN <<3, MatchTimeOnly(l, MinuteDigits)>>
  ELSE <<>>

PriorityTable == [l \in InputLines |-> PriorityMatch(l)]

\* the patterns line l is structurally compatible with
CompatibleTable ==
  [l \in InputLines |-> {k \in 0..3 : MatchPattern(k, l, MinuteDigits).ok}]

\* C7: the fields of the message a line starts are those extracted by the
\* first pattern that matches it in the order full timestamp, time+sender,
\* sender+time, time-only, and by that pattern alone
PatternPriority ==
  Processed =>
    LET pm == PriorityTable[LastLine]
    IN  IF pm = <<>> THEN ~ClassifiedNew
        ELSE /\ ClassifiedNew
             /\ currentMessage[1].content = Trim(pm[2].content)
             /\ currentMessage[1].sender =
                  (IF pm[1] = 3 THEN <<"U", "n", "k", "n", "o", "w", "n">>
                   ELSE Trim(pm[2].sender))
             /\ StampFromLine(currentMessage[1].timestamp, idx - 1)

\* C7 witness: a line of both the time+sender and the time-only shape was
\* given the sender and the content of time+sender
PatternPriorityWitness ==
  /\ Processed
  /\ {1, 3} \subseteq CompatibleTable[LastLine]
  /\ 0 \notin CompatibleTable[LastLine]
  /\ ClassifiedNew
  /\ currentMessage[1].sender = <<"B", "o", "b">>
  /\ currentMessage[1].content = <<"l", "u", "n", "c", "h">>

\* the pattern that matched the line message msg comes from
PatternOf(msg) == Match(lines[msg.line])[1]

\* C8: every emitted message has a determined sender: "Unknown" for a
\* time-only line, else the non-empty trimmed sender text of the line
SenderDetermined ==
  \A i \in 1..Len(messages) :
    /\ messages[i].sender # <<>>
    /\ PatternOf(messages[i]) = 3 =>
         messages[i].sender = <<"U", "n", "k", "n", "o", "w", "n">>
    /\ PatternOf(messages[i]) # 3 =>
         messages[i].sender = Trim(Match(lines[messages[i].line])[2].sender)

\* line l holds a time token of one or two hour digits and exactly two minute
\* digits that is followed by white space or a comma
HasTimeToken(l) ==
  \E i \in 1..Len(l) :
    /\ IsDigit(l[i]) /\ CharAt(l, i + 1, ":") /\ AllDigits(l, i + 2, i + 3)
    /\ (SpaceAt(l, i + 4) \/ CharAt(l, i + 4, ","))

TimeTokenTable == [l \in InputLines |-> HasTimeToken(l)]

\* line l has the shape of one of the patterns when minutes of md digits are
\* allowed
ShapeTable(md) == [l \in InputLines |-> \E k \in 0..3 : MatchPattern(k, l, md).ok]

TwoDigitShape == ShapeTable({2})

OneOrTwoDigitShape == ShapeTable({1, 2})

\* C9 as stated: a line of a pattern's shape whose minutes have one or two
\* digits is classified as a new message
SingleDigitMinutesAccepted ==
  Processed => (OneOrTwoDigitShape[LastLine] => ClassifiedNew)

\* C9 as amended: a line is classified as a new message only through a time
\* token of one or two hour digits and exactly two minute digits, and every
\* line of a pattern's shape with such a token is; a line whose minutes are
\* written with a single digit is not
TwoDigitMinutesOnly ==
  Processed =>
    /\ ClassifiedNew => TimeTokenTable[LastLine]
    /\ TwoDigitShape[LastLine] => ClassifiedNew

\* C9 witness: a line of the time+sender shape with single-digit minutes was
\* appended to the message in progress as continuation text, and lines with
\* one and with two hour digits were classified as new messages
TwoDigitMinutesOnlyWitness ==
  /\ Processed
  /\ idx = 4 /\ Matched(1) /\ Matched(2)
  /\ OneOrTwoDigitShape[LastLine] /\ ~TwoDigitShape[LastLine]
  /\ ~ClassifiedNew
  /\ currentMessage # <<>>
  /\ currentMessage[1].line = 2
  /\ currentMessage[1].content = Accumulated(2, 3)
  /\ Len(split(Match(lines[1])[2].time, ":")[1]) = 1
  /\ Len(split(Match(lines[2])[2].time, ":")[1]) = 2

\* C10: isMedia is computed on the fully assembled content
IsMediaOfAssembledContent ==
  pc = "done" =>
    \A i \in 1..Len(messages) :
      messages[i].isMedia <=> checkIfMedia(messages[i].content)

\* the keyword families in their priority order, each with its keywords and
\* file extensions in lower case
MediaFamilies ==
  <<[type |-> "image",
    keywords |-> {<<"p", "h", "o", "t", "o">>,
                  <<"f", "o", "t", "o">>,
                  <<"i", "m", "a", "g", "e">>,
                  <<"i", "m", "a", "g", "e", "m">>,
                  <<".", "j", "p", "g">>,
                  <<".", "p", "n", "g">>}],
   [type |-> "video",
    keywords |-> {<<"v", "i", "d", "e", "o">>,
                  <<"v", "i_acute", "d", "e", "o">>,
                  <<".", "m", "p", "4">>}],
   [type |-> "audio",
    keywords |-> {<<"a", "u", "d", "i", "o">>,
                  <<"a_acute", "u", "d", "i", "o">>,
                  <<".", "m", "p", "3">>,
                  <<".", "o", "g", "g">>}],
   [type |-> "document",
    keywords |-> {<<"d", "o", "c", "u", "m", "e", "n", "t">>,
                  <<"d", "o", "c", "u", "m", "e", "n", "t", "o">>,
                  <<".", "p", "d", "f">>,
                  <<".", "d", "o", "c", "x">>}],
   [type |-> "gif",
    keywords |-> {<<"g", "i", "f">>}],
   [type |-> "sticker",
    keywords |-> {<<"s", "t", "i", "c", "k", "e", "r">>,
                  <<"f", "i", "g", "u", "r", "i", "n", "h", "a">>}]>>

\* the families of which a keyword or an extension occurs in the content
FamiliesIn(content) ==
  {f \in 1..Len(MediaFamilies) :
     \E k \in MediaFamilies[f].keywords : includes(toLowerCase(content), k)}

\* the type of the earliest family that occurs, "unknown" when none does
EarliestFamily(occurring) ==
  IF occurring = {} THEN "unknown" ELSE MediaFamilies[Min(occurring)].type

\* C11: the mediaType of every returned media message is the first family in
\* the order image, video, audio, document, gif, sticker of which a keyword or
\* an extension occurs in the lowercased content, and "unknown" when none does
FirstFamilyWins ==
  pc = "done" =>
    \A i \in 1..Len(messages) :
      messages[i].isMedia =>
        messages[i].mediaType = EarliestFamily(FamiliesIn(messages[i].content))

\* C11 witness: a media message whose content names a gif first and a video
\* second was returned as a video
FirstFamilyWinsWitness ==
  /\ pc = "done"
  /\ Len(messages) = 1
  /\ messages[1].content = <<"G", "I", "F", " ", "V", "I_acute", "D", "E", "O">>
  /\ FamiliesIn(messages[1].content) = {2, 5}
  /\ messages[1].isMedia
  /\ messages[1].mediaType = "video"

\* the pattern that matched line i
PatternAt(i) == Match(lines[i])[1]

\* the hour and the minute written on matched line i
WrittenTime(i) ==
  LET hm == split(Match(lines[i])[2].time, ":")
  IN  [hours |-> Number(hm[1]), minutes |-> Number(hm[2])]

\* the day, the month and the year written on full timestamp line i
WrittenDate(i) ==
  LET dmy == split(Match(lines[i])[2].date, "/")
  IN  [day |-> Number(dmy[1]), month |-> Number(dmy[2]), year |-> Number(dmy[3])]

IsLeap(y) == (y % 4 = 0 /\ y % 100 # 0) \/ y % 400 = 0

\* the number of days of month m, 1..12, of year y
DaysInMonth(y, m) ==
  IF m = 2 THEN (IF IsLeap(y) THEN 29 ELSE 28)
  ELSE IF m \in {4, 6, 9, 11} THEN 30 ELSE 31

\* the time written on line i is a time of day
TimeInRange(i) == WrittenTime(i).hours <= 23 /\ WrittenTime(i).minutes <= 59

\* the date written on line i is a date of the calendar
DateInRange(i) ==
  /\ WrittenDate(i).month \in 1..12
  /\ WrittenDate(i).day \in 1..DaysInMonth(WrittenDate(i).year, WrittenDate(i).month)

\* C12: a full timestamp line with a month in 1..12, a valid day and a valid
\* time resolves to exactly the written year (0000-0099 included), month, day,
\* hour and minute
YearTakenLiterally ==
  \A j \in 1..Len(messages) :
    (/\ PatternAt(messages[j].line) = 0
     /\ TimeInRange(messages[j].line)
     /\ DateInRange(messages[j].line)) =>
      /\ messages[j].timestamp.year = WrittenDate(messages[j].line).year
      /\ messages[j].timestamp.month + 1 = WrittenDate(messages[j].line).month
      /\ messages[j].timestamp.date = WrittenDate(messages[j].line).day
      /\ messages[j].timestamp.hours = WrittenTime(messages[j].line).hours
      /\ messages[j].timestamp.minutes = WrittenTime(messages[j].line).minutes

\* the date d days after the last day of the month before month m of year y
RECURSIVE CarryDays(_, _, _)
CarryDays(y, m, d) ==
  IF d <= DaysInMonth(y, m) THEN <<y, m, d>>
  ELSE CarryDays(IF m = 12 THEN y + 1 ELSE y, IF m = 12 THEN 1 ELSE m + 1,
                 d - DaysInMonth(y, m))

\* minute mi of hour h of day d of month m of year y, each component from 1
\* (from 0 for the time) and of any size: minutes beyond 59 carry into the
\* hours, hours beyond 23 into the days, months beyond 12 into the years and
\* days beyond the end of a month into the months
Carried(y, m, d, h, mi) ==
  LET hh   == h + (mi \div 60)
      date == CarryDays(y + ((m - 1) \div 12), ((m - 1) % 12) + 1, d + (hh \div 24))
  IN  [year |-> date[1], month |-> date[2] - 1, date |-> date[3],
       hours |-> hh % 24, minutes |-> mi % 60, seconds |-> 0, ms |-> 0]

\* the year in which the date construction puts 1 January of year y
YearOfJanuary(y) == NewDate(y, 0, 1, 0, 0).year

\* what the components written on full timestamp line i carry to
CarriedStamp(i) ==
  Carried(YearOfJanuary(WrittenDate(i).year), WrittenDate(i).month,
          WrittenDate(i).day, WrittenTime(i).hours, WrittenTime(i).minutes)

\* C15: a full timestamp line whose month, day, hour or minute is beyond its
\* range (up to 99) still gives a message; its timestamp is the written one
\* with each overflow carried into the next larger unit; and the lines after
\* it are parsed: each matched line gives a message, and a time + sender line
\* that follows is put on the date carried to
OverflowCarried ==
  pc = "done" =>
    /\ \A i \in MatchedUpTo(Len(lines)) : \E j \in 1..Len(messages) : messages[j].line = i
    /\ \A j \in 1..Len(messages) :
         PatternAt(messages[j].line) = 0 =>
           messages[j].timestamp = CarriedStamp(messages[j].line)
    /\ \A j \in 2..Len(messages) :
         (PatternAt(messages[j].line) # 0 /\ PatternAt(messages[j - 1].line) = 0) =>
           /\ messages[j].content = Accumulated(messages[j].line, Len(lines))
           /\ messages[j].timestamp =
                [CarriedStamp(messages[j - 1].line) EXCEPT
                   !.hours = WrittenTime(messages[j].line).hours,
                   !.minutes = WrittenTime(messages[j].line).minutes]

\* C15 witness: [24:60, 32/13/2023] was returned as 2 February 2024, 1:00,
\* and the two lines after it as a second message of that day
OverflowCarriedWitness ==
  /\ pc = "done"
  /\ Len(lines) = 3
  /\ Matched(1) /\ PatternAt(1) = 0
  /\ WrittenDate(1) = [day |-> 32, month |-> 13, year |-> 2023]
  /\ WrittenTime(1) = [hours |-> 24, minutes |-> 60]
  /\ Len(messages) = 2
  /\ messages[1].timestamp =
       [year |-> 2024, month |-> 1, date |-> 2,
        hours |-> 1, minutes |-> 0, seconds |-> 0, ms |-> 0]
  /\ messages[2].timestamp =
       [year |-> 2024, month |-> 1, date |-> 2,
        hours |-> 9, minutes |-> 15, seconds |-> 0, ms |-> 0]
  /\ messages[2].content = <<"l", "u", "n", "c", "h", " ", "h", "o", "w", " ", "a", "r", "e", " ", "y", "o", "u">>

\* the last full timestamp line before line i, 0 when there is none: the run
\* of lines with only a time that line i is in starts after it
RunStart(i) ==
  LET full == {j \in 1..(i - 1) : Matched(j) /\ PatternAt(j) = 0}
  IN  IF full = {} THEN 0 ELSE Max(full)

\* the reference in effect after line s, the clock at entry for s = 0
ReferenceAfter(s) ==
  IF s = 0 THEN now
  ELSE parseTimestamp(Match(lines[s])[2].time, Match(lines[s])[2].date)

\* the calendar date of a Date
CalendarDate(d) == <<d.year, d.month, d.date>>

\* the matched lines of the run that line i is in, up to line i
RunUpTo(i) == {j \in (RunStart(i) + 1)..i : Matched(j)}

TextLines(text) == split(text, "\n")

\* no line of the text matches a pattern: so it is for a text that is empty
\* or white space only, of which every line is blank
NoLineMatches(text) ==
  \A i \in 1..Len(TextLines(text)) : Match(TextLines(text)[i]) = <<>>

\* C14: for a raw text that is null-like, empty or white space only, and for
\* one of which no line matches a pattern, no message is started and the
\* sequence returned is empty; the call returns normally (a null-like or
\* blank text is returned on before the lines are split)
EmptyInEmptyOut ==
  /\ (rawText = Null \/ NoLineMatches(rawText)) =>
       /\ messages = <<>>
       /\ currentMessage = <<>>
  /\ (rawText = Null \/ Trim(rawText) = <<>>) => (lines = <<>> /\ pc \in {"start", "done"})

\* C14 witness: a text of a blank line and two lines of no pattern was
\* returned on as no message
EmptyInEmptyOutWitness ==
  /\ pc = "done"
  /\ rawText # Null
  /\ Len(TextLines(rawText)) = 3
  /\ Len(lines) = 2
  /\ ~Matched(1) /\ ~Matched(2)
  /\ idx = 3
  /\ messages = <<>>

\* the calls entered so far: the running one and those set aside
Calls == <<Running>> \o suspended

\* hour h, minute mi of the calendar date of Date d
OnDateOf(d, h, mi) ==
  [year |-> d.year, month |-> d.month, date |-> d.date,
   hours |-> h, minutes |-> mi, seconds |-> 0, ms |-> 0]

\* a message that is no media, from line i
PlainMessage(timestamp, sender, content, i) ==
  [timestamp |-> timestamp, sender |-> sender, content |-> content,
   isMedia |-> FALSE, mediaType |-> Undefined, line |-> i]

\* what a call on text with clock reading clock returns when it runs alone
ReturnedAlone(text, clock) ==
  IF text = MorningText
  THEN <<PlainMessage(OnDateOf(clock, 9, 0), <<"U", "n", "k", "n", "o", "w", "n">>,
                      <<"m", "s", "g", "1", " ", "h", "o", "w", " ", "a", "r", "e", " ", "y", "o", "u">>, 2),
         PlainMessage([year |-> 2023, month |-> 11, date |-> 31, hours |-> 23,
                       minutes |-> 59, seconds |-> 0, ms |-> 0],
                      <<"A", "l", "i", "c", "e">>, <<"H", "e", "l", "l", "o">>, 4)>>
  ELSE IF text = NightText
  THEN <<PlainMessage(OnDateOf(clock, 23, 50), <<"U", "n", "k", "n", "o", "w", "n">>,
                      <<"m", "s", "g", "2">>, 1)>>
  ELSE <<>>

\* C16: what a call returns depends only on its raw text and on the clock
\* reading at its entry: it is what the call returns when it runs alone,
\* whatever calls ran before it or were interleaved with it, and two calls
\* with equal raw text and equal clock reading return equal sequences
CallsIsolated ==
  /\ \A a \in 1..Len(Calls) :
       Calls[a].pc = "done" =>
         Calls[a].messages = ReturnedAlone(Calls[a].rawText, Calls[a].now)
  /\ \A a, b \in 1..Len(Calls) :
       (/\ Calls[a].pc = "done" /\ Calls[b].pc = "done"
        /\ Calls[a].rawText = Calls[b].rawText /\ Calls[a].now = Calls[b].now) =>
         Calls[a].messages = Calls[b].messages

\* C16 witness: a call on a text that starts with a time-only line returned
\* its two messages while a call on another text, with another clock
\* reading, was in its loop with a message in progress
CallsIsolatedWitness ==
  /\ Len(suspended) = 1
  /\ pc = "done" /\ rawText = MorningText /\ Len(messages) = 2
  /\ suspended[1].pc = "loop" /\ suspended[1].rawText = NightText
  /\ suspended[1].now # now
  /\ suspended[1].idx = 2
  /\ suspended[1].currentMessage # <<>>
  /\ suspended[1].currentTimestamp.hours = 23

\* map has gone through the array: extractMessagesFromCaptures returns
ExtractReturned == pc = "idle" /\ Len(extracted) = Len(captures)

\* C17: extractMessagesFromCaptures never changes the captures it is given,
\* and the array it returns has their length and order: each element has the
\* properties of its capture with their values, but for messages, which is
\* what its rawText alone parses to
CapturesKept ==
  /\ [][captures' = captures]_vars
  /\ [](/\ Len(extracted) <= Len(captures)
        /\ \A k \in 1..Len(extracted) :
             /\ DOMAIN extracted[k] = DOMAIN captures[k]
             /\ \A f \in DOMAIN captures[k] \ {"messages"} :
                  extracted[k][f] = captures[k][f]
             /\ extracted[k].messages = ReturnedAlone(captures[k].rawText, now))

\* C17 witness: an array of two captures with different texts, the second
\* with messages of its own and no screenshot, was gone through
CapturesKeptWitness ==
  /\ ExtractReturned
  /\ Len(captures) = 2
  /\ captures[1].rawText = MorningText /\ captures[1].screenshot = "frame"
  /\ captures[2].rawText = NightText /\ Len(captures[2].messages) = 1
  /\ Len(extracted[1].messages) = 2
  /\ Len(extracted[2].messages) = 1
  /\ extracted[2].messages # captures[2].messages

\* the last call of a helper
Helper == helper[1]

\* the sum of the lengths of the groups from group g on
RECURSIVE GroupedFrom(_, _)
GroupedFrom(grouped, g) ==
  IF g > Len(grouped) THEN 0 ELSE Len(grouped[g].value) + GroupedFrom(grouped, g + 1)

\* the places at which message msg is found in the groups
PlacesOf(grouped, msg) ==
  {<<g, k>> \in (1..Len(grouped)) \X (1..Len(messages)) :
     k <= Len(grouped[g].value) /\ grouped[g].value[k] = msg}

\* the indices in msgs of the elements of group, when it is taken from msgs
\* in the order of msgs: the increasing index maps of group into msgs
InInputOrder(group, msgs) ==
  \E at \in [1..Len(group) -> 1..Len(msgs)] :
    /\ \A k \in 1..Len(group) : msgs[at[k]] = group[k]
    /\ \A k, l \in 1..Len(group) : k < l => at[k] < at[l]

\* C18: groupMessagesBySender partitions the messages: each message is in
\* exactly one group, the one of which the key is its sender as it is
\* written; no group is empty; no two groups have the same key; a group keeps
\* the order of the messages; the groups hold as many messages as were given
GroupsPartition ==
  (helper # <<>> /\ Helper.fn = "groupMessagesBySender") =>
    /\ \A i \in 1..Len(messages) :
         /\ Cardinality(PlacesOf(Helper.returned, messages[i])) = 1
         /\ \A place \in PlacesOf(Helper.returned, messages[i]) :
              Helper.returned[place[1]].key = messages[i].sender
    /\ \A g \in 1..Len(Helper.returned) :
         /\ Helper.returned[g].value # <<>>
         /\ InInputOrder(Helper.returned[g].value, messages)
    /\ \A g, h \in 1..Len(Helper.returned) :
         g # h => Helper.returned[g].key # Helper.returned[h].key
    /\ GroupedFrom(Helper.returned, 1) = Len(messages)

\* C18 witness: three messages of Bob, bob and Bob again were put in two
\* groups, Bob's with his two messages in their order
GroupsPartitionWitness ==
  /\ helper # <<>> /\ Helper.fn = "groupMessagesBySender"
  /\ Len(messages) = 3
  /\ messages[1].sender = <<"B", "o", "b">>
  /\ messages[2].sender = <<"b", "o", "b">>
  /\ messages[3].sender = <<"B", "o", "b">>
  /\ Len(Helper.returned) = 2
  /\ Helper.returned[1].value = <<messages[1], messages[3]>>
  /\ Helper.returned[2].value = <<messages[2]>>

\* sender, in lower case, is found in whole, in lower case, from place p on
FoundAt(whole, sender, p) ==
  /\ p + Len(sender) - 1 <= Len(whole)
  /\ \A k \in 1..Len(sender) : LowerChar(whole[p + k - 1]) = LowerChar(sender[k])

\* the indices of the messages of which the sender contains sender, the
\* case of the letters set aside
Containing(sender) ==
  {i \in 1..Len(messages) :
     \E p \in 1..(Len(messages[i].sender) + 1) : FoundAt(messages[i].sender, sender, p)}

\* the elements of msgs at the indices of the set at, in the order of msgs
RECURSIVE Picked(_, _)
Picked(msgs, at) ==
  IF at = {} THEN <<>>
  ELSE Picked(msgs, at \ {Max(at)}) \o <<msgs[Max(at)]>>

\* C19: filterMessagesBySender returns exactly the messages of which the
\* sender contains the given string, upper and lower case taken as the same,
\* in the order they were given in; it leaves the messages it was given as
\* they are; applied to what it returned, with the same string, it returns the
\* same again
FilterExact ==
  /\ [][helper' # helper => messages' = messages]_vars
  /\ []((helper # <<>> /\ Helper.fn = "filterMessagesBySender") =>
          /\ Helper.returned = Picked(messages, Containing(Helper.sender))
          /\ filterMessagesBySender(Helper.returned, Helper.sender) = Helper.returned)

\* C19 witness: of the three messages of Bob, Alice and bob, the filter with
\* "B" returned the first and the third
FilterExactWitness ==
  /\ helper # <<>> /\ Helper.fn = "filterMessagesBySender"
  /\ Helper.sender = <<"B">>
  /\ Len(messages) = 3
  /\ messages[1].sender = <<"B", "o", "b">>
  /\ messages[2].sender = <<"A", "l", "i", "c", "e">>
  /\ messages[3].sender = <<"b", "o", "b">>
  /\ Helper.returned = <<messages[1], messages[3]>>

\* the age of a stored topic at the clock reading clock, in days
AgeOf(topic, clock) == clock - topic.extractedAt

\* the retention period that is configured
RetentionPeriod == loadSettings(settings).maxDaysToKeep

\* C20: when storeTopics has saved, no topic whose extractedAt is older than
\* the configured retention period (settings.maxDaysToKeep, 30 days by
\* default) remains in storage
RetentionKept ==
  [][StoreTopicsSave =>
       \A i \in 1..Len(stored'[1].topics) :
         AgeOf(stored'[1].topics[i], today') <= RetentionPeriod]_vars

\* the content the message started by matched line i ends with: its own body
\* and the continuation lines that follow it
FinalContent(i) == Accumulated(i, NextMatched(i) - 1)

\* the messages in the output that come from line i
EmittedFrom(i) == {j \in 1..Len(messages) : messages[j].line = i}

\* the loop has handled the matched line after line i, or all the lines
Closed(i) ==
  \/ pc \in {"media", "done"}
  \/ pc = "loop" /\ NextMatched(i) <= idx - 1

\* C22: emission is exactly once per qualifying match: a matched line whose
\* accumulated content is non-empty gives exactly one message, emitted when the
\* next matched line is handled or at the end of the input and not before; a
\* matched line whose content stays empty gives none; the number of emitted
\* messages is the number of matched lines with non-empty accumulated content
EmittedOnce ==
  /\ \A i \in 1..Len(lines) :
       Cardinality(EmittedFrom(i)) =
         (IF Matched(i) /\ Closed(i) /\ FinalContent(i) # <<>> THEN 1 ELSE 0)
  /\ pc \in {"media", "done"} =>
       Len(messages) =
         Cardinality({i \in 1..Len(lines) : Matched(i) /\ FinalContent(i) # <<>>})

\* C22 witness: of three lines the first, matched with an empty body and no
\* continuation, gave no message, and the second, matched with an empty body
\* and one continuation line, gave the only message, at the end of the input
EmittedOnceWitness ==
  /\ pc = "done"
  /\ Len(lines) = 3 /\ Matched(1) /\ Matched(2) /\ ~Matched(3)
  /\ Trim(Match(lines[1])[2].content) = <<>>
  /\ Trim(Match(lines[2])[2].content) = <<>>
  /\ Len(messages) = 1
  /\ messages[1].line = 2

\* the timestamp matched line i resolves to when the reference in effect is
\* reference: for a full timestamp the written date and time; for a line with
\* only a time the date of the reference at the hour and minute written, the
\* seconds and milliseconds zero
ResolvedFrom(i, reference) ==
  IF PatternAt(i) = 0 THEN CarriedStamp(i)
  ELSE Carried(reference.year, reference.month + 1, reference.date,
               WrittenTime(i).hours, WrittenTime(i).minutes)

\* the rolling reference after the first n lines: the clock at entry, then the
\* timestamp each matched line resolves to, unmatched lines changing nothing
RECURSIVE ReferenceUpTo(_)
ReferenceUpTo(n) ==
  IF n = 0 THEN now
  ELSE IF Matched(n) THEN ResolvedFrom(n, ReferenceUpTo(n - 1))
  ELSE ReferenceUpTo(n - 1)

\* C23: the rolling reference is the clock reading of the entry when the loop
\* starts and, after every matched line, of any pattern and emitted or not, the
\* timestamp resolved for that line, which is also the timestamp of the message
\* the line starts; a resolution from a time alone takes the date of the
\* reference, the hour and minute of the line and zero seconds and
\* milliseconds (an hour beyond 23 or a minute beyond 59 is carried into the
\* date); unmatched lines leave the reference unchanged
RollingReference ==
  pc \in {"loop", "media", "done"} =>
    /\ currentTimestamp = ReferenceUpTo(idx - 1)
    /\ (pc = "loop" /\ idx > 1 /\ ClassifiedNew) =>
         currentMessage[1].timestamp = currentTimestamp
    /\ (/\ pc = "loop" /\ idx > 1 /\ ClassifiedNew /\ PatternAt(idx - 1) # 0
        /\ TimeInRange(idx - 1)) =>
         currentTimestamp =
           [ReferenceUpTo(idx - 2) EXCEPT
              !.hours = WrittenTime(idx - 1).hours,
              !.minutes = WrittenTime(idx - 1).minutes,
              !.seconds = 0, !.ms = 0]

\* C23 witness: after a full timestamp of 2 February 2024, a time + sender
\* line with an empty body, whose message is never emitted, and a line of
\* 14:00, the reference is 2 February 2024, 14:00:00.000
RollingReferenceWitness ==
  /\ Processed /\ idx = 4
  /\ Matched(1) /\ Matched(2) /\ Matched(3)
  /\ PatternAt(1) = 0 /\ PatternAt(2) = 1 /\ PatternAt(3) = 3
  /\ Trim(Match(lines[2])[2].content) = <<>>
  /\ Len(messages) = 1 /\ messages[1].line = 1
  /\ now.seconds # 0
  /\ currentTimestamp =
       [year |-> 2024, month |-> 1, date |-> 2,
        hours |-> 14, minutes |-> 0, seconds |-> 0, ms |-> 0]

\* where the first time token of line l starts: one or two hour digits, ":",
\* two minute digits, then white space or a comma; 0 when l holds none
TokenStart(l) ==
  LET at == {s \in 1..Len(l) :
               /\ IsDigit(l[s])
               /\ (TimeEndSpace(l, s, MinuteDigits) # 0
                   \/ TimeEndComma(l, s, MinuteDigits) # 0)}
  IN  IF at = {} THEN 0 ELSE Min(at)

\* the text of line l before its first time token, trimmed
TextBefore(l) == Trim(SubSeq(l, 1, TokenStart(l) - 1))

\* C24: a line is classified as time+sender only when its time token is
\* leading, and as full timestamp only when nothing precedes the bracket; a
\* line with other text before its first time token is classified as
\* sender+time with that text as the sender (or is a continuation), so that no
\* leading text of a matched line is discarded
LeadingTimeOnly ==
  (Processed /\ ClassifiedNew) =>
    /\ PatternAt(idx - 1) = 1 => TextBefore(LastLine) = <<>>
    /\ PatternAt(idx - 1) = 0 => TextBefore(LastLine) = <<"[">>
    /\ TextBefore(LastLine) \notin {<<>>, <<"[">>} =>
         /\ PatternAt(idx - 1) = 2
         /\ currentMessage[1].sender = TextBefore(LastLine)

\* the lines before the first matched line
LeadingLines == {i \in 1..Len(lines) : \A j \in 1..i : ~Matched(j)}

\* C25: leading unmatched lines are dropped without effect: as long as no
\* matched line was handled there is no message in progress, the output is
\* empty and the rolling reference is the clock reading of the entry; and the
\* content of every emitted message is made of the matched line it comes from
\* and of the lines that follow that line, of no leading line
LeadingDropped ==
  /\ (pc = "loop" /\ MatchedUpTo(idx - 1) = {}) =>
       /\ currentMessage = <<>>
       /\ messages = <<>>
       /\ currentTimestamp = now
  /\ \A j \in 1..Len(messages) :
       /\ messages[j].line \notin LeadingLines
       /\ messages[j].content = FinalContent(messages[j].line)
  /\ currentMessage # <<>> =>
       /\ currentMessage[1].line \notin LeadingLines
       /\ currentMessage[1].content = Accumulated(currentMessage[1].line, idx - 1)

\* C25 witness: two lines of no pattern, then a matched line: the call
\* returned the message of the third line alone, with the body of that line
LeadingDroppedWitness ==
  /\ pc = "done"
  /\ Len(lines) = 3 /\ ~Matched(1) /\ ~Matched(2) /\ Matched(3)
  /\ LeadingLines = {1, 2}
  /\ Len(messages) = 1
  /\ messages[1].line = 3
  /\ messages[1].content = Trim(Match(lines[3])[2].content)

\* the entries of summaries that are not of date
OfOtherDates(summaries, date) ==
  SelectSeq(summaries, LAMBDA s : s.date # date)

\* the places in summaries of the entries of date
PlacesOfDate(summaries, date) ==
  {i \in 1..Len(summaries) : summaries[i].date = date}

\* operation k, a call of fn whose load was not failed, returns in this step
Completes(k, fn) ==
  /\ Awaits(k, fn)
  /\ ~op[k].thrown
  /\ op' = Without(op, k)

EffectsKept ==
  /\ \A i \in 1..Len(StoredTopics) :
       \E j \in 1..Len(stored'[1].topics) :
         /\ stored'[1].topics[j].id = StoredTopics[i].id
         /\ StoredTopics[i].archived => stored'[1].topics[j].archived
  /\ \A i \in 1..Len(StoredItems) :
       \E j \in 1..Len(stored'[1].actionItems) :
         /\ stored'[1].actionItems[j].id = StoredItems[i].id
         /\ StoredItems[i].completed => stored'[1].actionItems[j].completed
  /\ \A i \in 1..Len(StoredSummaries) :
       \E j \in 1..Len(stored'[1].summaries) :
         stored'[1].summaries[j].date = StoredSummaries[i].date

\* C27: no update is lost when storage operations interleave their load and
\* save steps: when an operation whose load did not fail saves, the effects of
\* the operations that saved before it are still there
NoLostUpdate ==
  [][\A k \in 1..Len(op) :
       (~op[k].thrown /\ op' = Without(op, k) /\ stored' # stored) => EffectsKept
    ]_vars

\* C28: a failed read of storage destroys nothing: when storeTopics,
\* storeActionItems or storeDailySummary returns after getCustomData has
\* thrown, the topics, summaries and action items stored before are stored
\* still
FailedReadKeeps ==
  [][\A k \in 1..Len(op) :
       (op[k].thrown /\ op' = Without(op, k)) => EffectsKept
    ]_vars

\* the queries that return topics
TopicQueries == {"getTopicsForDate", "getTopicsByCategory", "searchTopics"}

\* a query that returns in this step returns no topic that is stored archived
ArchivedNotReturned ==
  (helper' # helper /\ helper'[1].fn \in TopicQueries) =>
    \A n \in 1..Len(helper'[1].returned) : \A i \in 1..Len(StoredTopics) :
      StoredTopics[i].id = helper'[1].returned[n].id =>
        ~StoredTopics[i].archived

\* a topic stored archived is, after the step, archived still or stored no more
ArchivedStays ==
  \A i \in 1..Len(StoredTopics) :
    StoredTopics[i].archived =>
      \A j \in 1..Len(stored'[1].topics) :
        stored'[1].topics[j].id = StoredTopics[i].id =>
          stored'[1].topics[j].archived

\* an archiveTopic or updateActionItem whose id is not stored, when it
\* completes, leaves the storage as it is, lastUpdated included
UnknownIdNoSave ==
  \A k \in 1..Len(op) :
    /\ (Awaits(k, "archiveTopic") /\ op' = Without(op, k)
          /\ op[k].args \notin IdsOf(StoredTopics))
         => stored' = stored
    /\ (Awaits(k, "updateActionItem") /\ op' = Without(op, k)
          /\ op[k].args.id \notin IdsOf(StoredItems))
         => stored' = stored

OccursAt(sender, entry, p) ==
  /\ p + Len(entry) - 1 <= Len(sender)
  /\ \A j \in 1..Len(entry) : LowerChar(sender[p + j - 1]) = LowerChar(entry[j])

\* sender contains an entry of list, case-insensitively
ContainsOneOf(sender, list) ==
  \E i \in 1..Len(list) : \E p \in 1..(Len(sender) + 1) :
    OccursAt(sender, list[i], p)

\* the settings that the handler of the request got from loadSettings
Loaded == Request.settings[1]

\* the handler has filtered the messages and has not returned yet
Filtered ==
  /\ request # <<>>
  /\ Request.at \in {"extractTopics", "storeTopics", "extractActionItems",
                     "storeActionItems", "getTopicsForDate", "storeDailySummary"}

\* what the captures hold of messages once they are all parsed
Parsed == flatMapMessages(extracted)

\* the messages parsed whose sender the sender lists let through
LetThrough ==
  SelectSeq(Parsed,
    LAMBDA msg : /\ ~ContainsOneOf(msg.sender, Loaded.excludeSenders)
                 /\ \/ Loaded.includeOnlySenders = <<>>
                    \/ ContainsOneOf(msg.sender, Loaded.includeOnlySenders))

\* C21: with the settings that the handler loaded, shouldProcessSender is false
\* for a sender that contains an entry of excludeSenders whatever the case of
\* the letters, also when it contains one of includeOnlySenders; with a
\* non-empty includeOnlySenders it is true only for a sender that contains
\* one of its entries; with both lists empty it is true. The messages that
\* handleExtractTopics hands to the AI analysis and those that
\* handleDailySummary counts in the summary all pass this check
SenderFilter ==
  /\ (request # <<>> /\ Request.settings # <<>>) =>
       \A i \in 1..Len(Parsed) :
         LET sender == Parsed[i].sender
             process == shouldProcessSender(sender, Loaded)
         IN  /\ ContainsOneOf(sender, Loaded.excludeSenders) => ~process
             /\ (Loaded.includeOnlySenders # <<>> /\ process) =>
                  ContainsOneOf(sender, Loaded.includeOnlySenders)
             /\ (Loaded.excludeSenders = <<>> /\ Loaded.includeOnlySenders = <<>>)
                  => process
  /\ Filtered => Request.allMessages = LetThrough
  /\ \A k \in 1..Len(op) :
       (request # <<>> /\ Request.at = "storeDailySummary"
          /\ op[k].fn = "storeDailySummary") =>
         op[k].args.totalMessages = Len(LetThrough)

\* Bob is excluded, Alice is not, and the AI analysis has returned on the
\* message of Alice alone
SenderFilterWitness ==
  /\ At("extract", "storeTopics")
  /\ Loaded.excludeSenders # <<>>
  /\ Len(Parsed) = 2
  /\ Len(Request.allMessages) = 1
  /\ Request.allMessages[1].sender = <<"A", "l", "i", "c", "e">>

\* where handleExtractTopics is before extractTopics has returned
BeforeTopics == {"loadSettings", "capture", "extractMessages", "extractTopics"}

\* the request is answered in this step
Answered == Handling /\ request'[1].at = "responded"

Answer == request'[1].response[1]

\* the messages of the answers given without an analysis
NothingToDo ==
  {"WhatsApp Topics pipe is disabled", "No WhatsApp data found",
   "No messages found after filtering"}

\* the topics that extractTopics returned are the last of the stored topics
TopicsInPlace ==
  /\ Len(StoredTopics) >= Len(Request.topics)
  /\ \A i \in 1..Len(Request.topics) :
       LET topic == StoredTopics[Len(StoredTopics) - Len(Request.topics) + i]
       IN  /\ topic.title = Request.topics[i].title
           /\ topic.category = Request.topics[i].category
           /\ topic.timestamp = Request.topics[i].timestamp
           /\ ~topic.archived

\* C30: handleExtractTopics leaves the storage as it is until extractTopics
\* has returned: an answer that the pipe is disabled, that no data or no
\* message was found, or the 500 for what extractTopics threw, is given with
\* nothing stored; what follows extractTopics is the call of storeTopics or
\* the 500; the topics are stored when extractActionItems is awaited; and an
\* extraction of action items that fails or finds none is answered with
\* success, the stored topics left in place
StoredAfterAnalysis ==
  /\ [](At("extract", "extractActionItems") => TopicsInPlace)
  /\ [][/\ (request # <<>> /\ Request.action = "extract"
              /\ Request.at \in BeforeTopics) => stored' = stored
        /\ (Answered /\ Request.action = "extract"
              /\ (Answer.message \in NothingToDo \/ Answer.status = 500)) =>
             Request.at \in BeforeTopics
        /\ (At("extract", "extractTopics") /\ request' # request) =>
             \/ /\ request'[1].at = "storeTopics"
                /\ Len(op') = 1
                /\ op'[1].fn = "storeTopics"
                /\ op'[1].args = request'[1].topics
             \/ /\ Answered
                /\ Answer = Json(500, "Internal server error", "extractTopics")
        /\ (At("extract", "extractActionItems") /\ Answered) =>
             /\ Answer = Extracted
             /\ stored' = stored
             /\ StoredItems' = StoredItems]_vars

\* a first request has stored a topic; in a second request extractTopics has
\* thrown, the answer is the 500 and the storage is as the first left it
StoredAfterAnalysisWitness ==
  /\ At("extract", "responded")
  /\ Request.n = 2
  /\ Request.response[1] = Json(500, "Internal server error", "extractTopics")
  /\ Len(StoredTopics) = 1
  /\ StoredItems = <<>>
  /\ stored[1].lastUpdated = today

====
